---- MODULE Spec2Model ----
\* Model of the client-side subtitle engine (class SubtitleManager): the cue
\* extractors, the appearance resolver and the playback overlay, together
\* with the asynchronous fetch issued by loadTrack.
\*
\* Strings the program inspects character by character (payloads, timestamps,
\* cue text, innerHTML) are sequences of one-character strings.
EXTENDS Integers, Sequences, FiniteSets, TLC

\* ---------------------------------------------------------------- bounds
\* Number of loadTrack calls issued in one behaviour.
MaxLoads == 2
\* The playback clock takes the values k * TickMs, k in 0..MaxTick.
MaxTick == 4
TickMs == 750
\* The timestamps given to parseTime on its own have seconds 0..MaxSeconds
\* and milliseconds 0..MaxMillis (besides a few fixed ones).
MaxSeconds == 2
MaxMillis == 11
\* parseSRT / parseVTT calls made on their own stop when this.cues would
\* grow beyond this length.
MaxParsedCues == 2

\* The number of calls the caller of the store makes one after the other.
MaxCalls == 3

\* The number of operations of the provider the user interface calls.
MaxProviderCalls == 4

\* The number of addServer calls that fill the store before calls are made
\* without awaiting one another.
MaxSeeds == 2

\* ------------------------------------------------------------- characters
NL == "\n"
CR == "\r"
\* The NaN of parseInt, as an integer no unsigned field can denote.
NotNumeric == -1

DigitChars == <<"0", "1", "2", "3", "4", "5", "6", "7", "8", "9">>

isDigit(c) == \E i \in 1..10 : DigitChars[i] = c

digitVal(c) == (CHOOSE i \in 1..10 : DigitChars[i] = c) - 1

\* The characters matched by \s and removed by String.prototype.trim: space,
\* tab, line feed, carriage return, form feed, vertical tab (U+000B),
\* no-break space (U+00A0), the byte-order mark (U+FEFF) and the Ogham space
\* mark (U+1680). The space separators from U+2000 on (U+2000..U+200A,
\* U+2028, U+2029, U+202F, U+205F, U+3000) are white space too, but cannot be
\* written in a string of this module; no input of the model contains them.
WhiteSpace == {" ", "\t", NL, CR, "\f", "", " ", "﻿", " "}

isSpace(c) == c \in WhiteSpace

\* s[from..to] (1-based, inclusive), empty when to < from.
Slice(s, from, to) == [i \in 1..(IF to < from THEN 0 ELSE to - from + 1) |-> s[from + i - 1]]

\* s has the characters of lit starting at position i.
HasAt(s, i, lit) == /\ i >= 1
                    /\ i + Len(lit) - 1 <= Len(s)
                    /\ \A k \in 1..Len(lit) : s[i + k - 1] = lit[k]

\* text.replace(/\r\n/g, '\n').replace(/\r/g, '\n')
\* A CR that precedes an NL is dropped, every other CR becomes an NL.
normalizeLineEndings(s) ==
    LET kept == SelectSeq([i \in 1..Len(s) |-> i],
                          LAMBDA i : ~(s[i] = CR /\ i < Len(s) /\ s[i + 1] = NL))
    IN [k \in 1..Len(kept) |-> IF s[kept[k]] = CR THEN NL ELSE s[kept[k]]]

\* String.prototype.trim
trim(s) ==
    IF \A i \in 1..Len(s) : isSpace(s[i]) THEN <<>>
    ELSE LET first == CHOOSE i \in 1..Len(s) :
                         /\ ~isSpace(s[i])
                         /\ \A j \in 1..(i - 1) : isSpace(s[j])
             last == CHOOSE i \in 1..Len(s) :
                         /\ ~isSpace(s[i])
                         /\ \A j \in (i + 1)..Len(s) : isSpace(s[j])
         IN Slice(s, first, last)

\* text.replace(/\n/g, '<br>')
RECURSIVE brFrom(_, _)
brFrom(s, i) ==
    IF i > Len(s) THEN <<>>
    ELSE (IF s[i] = NL THEN <<"<", "b", "r", ">">> ELSE <<s[i]>>) \o brFrom(s, i + 1)

htmlText(s) == brFrom(s, 1)

\* ----------------------------------------------------------------- numbers
\* A JavaScript number that is NaN or a non-negative double below 2^31:
\* its integer part, and the bits of its fractional part after the binary
\* point (most significant first, no trailing zero; empty for an integer).
NaN == [nan |-> TRUE, whole |-> 0, frac |-> <<>>]

Num(n) == [nan |-> FALSE, whole |-> n, frac |-> <<>>]

\* x <= t and t <= x for a number x and an integer t; false when x is NaN.
numLeqInt(x, t) == ~x.nan /\ (x.whole < t \/ (x.whole = t /\ x.frac = <<>>))

intLeqNum(t, x) == ~x.nan /\ t <= x.whole

\* Natural numbers beyond the range of a machine integer are binary
\* numerals: sequences of bits, least significant first, no high zero.
bitAt(b, i) == IF i >= 1 /\ i <= Len(b) THEN b[i] ELSE 0

trimHigh(b) ==
    IF \A i \in 1..Len(b) : b[i] = 0 THEN <<>>
    ELSE SubSeq(b, 1, CHOOSE i \in 1..Len(b) :
                          b[i] = 1 /\ \A j \in (i + 1)..Len(b) : b[j] = 0)

\* The numeral of an integer 0 <= n < 2^31.
bitsOf(n) == trimHigh([i \in 1..31 |-> (n \div 2^(i - 1)) % 2])

\* The integer of a numeral of at most 31 bits.
valueOf(b) ==
    LET v[i \in 0..Len(b)] == IF i = 0 THEN 0 ELSE v[i - 1] + b[i] * 2^(i - 1)
    IN v[Len(b)]

\* b * 2^n
shiftLeft(b, n) == IF b = <<>> THEN <<>> ELSE [i \in 1..n |-> 0] \o b

\* a + b: the carry into position i is set when some lower position holds a
\* one in both numerals and every position between holds exactly one.
carryInto(a, b, i) ==
    \E j \in 1..(i - 1) :
        /\ bitAt(a, j) = 1
        /\ bitAt(b, j) = 1
        /\ \A l \in (j + 1)..(i - 1) : bitAt(a, l) # bitAt(b, l)

addBits(a, b) ==
    LET n == (IF Len(a) > Len(b) THEN Len(a) ELSE Len(b)) + 1
    IN trimHigh([i \in 1..n |->
                    (bitAt(a, i) + bitAt(b, i) + IF carryInto(a, b, i) THEN 1 ELSE 0) % 2])

\* a * k for an integer k >= 0, by shifting and adding over the bits of k.
RECURSIVE mulSmall(_, _)
mulSmall(a, k) ==
    IF k = 0 THEN <<>>
    ELSE addBits(IF k % 2 = 1 THEN a ELSE <<>>, shiftLeft(mulSmall(a, k \div 2), 1))

\* The number of quotient bits one division step yields for the divisor t:
\* the largest c with t * 2^c < 2^31.
chunkBits(t) == CHOOSE c \in 1..30 : t <= (2^30 - 1) \div 2^(c - 1) /\ (c = 30 \/ t > (2^30 - 1) \div 2^c)

\* floor(n * 2^(c * steps) / t) for integers 0 <= n < 2^31 and t > 0, with
\* c = chunkBits(t), and whether the division is exact: long division that
\* brings down c zero bits per step.
scaledQuotient(n, t, steps) ==
    LET c == chunkBits(t)
        rem[i \in 0..steps] == IF i = 0 THEN n % t ELSE (rem[i - 1] * 2^c) % t
        chunk(i) == (rem[i - 1] * 2^c) \div t
        low == [j \in 1..(c * steps) |->
                   (chunk(steps - ((j - 1) \div c)) \div 2^((j - 1) % c)) % 2]
    IN [quot |-> trimHigh(low \o bitsOf(n \div t)), exact |-> rem[steps] = 0]

\* A finite non-negative double as m * 2^e with m odd (or m and e zero).
normal(m, e) ==
    IF m = <<>> THEN [m |-> <<>>, e |-> 0]
    ELSE LET z == (CHOOSE i \in 1..Len(m) : m[i] = 1 /\ \A j \in 1..(i - 1) : m[j] = 0) - 1
         IN [m |-> SubSeq(m, z + 1, Len(m)), e |-> e + z]

\* The double nearest to b * 2^e, ties to the even significand (IEEE 754
\* round-to-nearest with a 53-bit significand); when inexact is set the
\* value rounded lies strictly between b * 2^e and (b + 1) * 2^e, and b has
\* more than 53 bits.
roundToDouble(b, e, inexact) ==
    IF Len(b) <= 53 THEN normal(b, e)
    ELSE LET drop == Len(b) - 53
             kept == SubSeq(b, drop + 1, Len(b))
             below == inexact \/ \E i \in 1..(drop - 1) : b[i] = 1
             up == b[drop] = 1 /\ (below \/ kept[1] = 1)
         IN normal(IF up THEN addBits(kept, <<1>>) ELSE kept, e + drop)

\* The number record of a double m * 2^e below 2^31.
toNumber(d) ==
    IF d.e >= 0 THEN Num(valueOf(shiftLeft(d.m, d.e)))
    ELSE [nan |-> FALSE,
          whole |-> valueOf(SubSeq(d.m, 1 - d.e, Len(d.m))),
          frac |-> [j \in 1..(0 - d.e) |-> bitAt(d.m, 1 - d.e - j)]]

\* ------------------------------------------------------------- parseTime
\* timeString.replace(',', '.'): the first comma only.
replaceFirstComma(s) ==
    IF \E i \in 1..Len(s) : s[i] = ","
    THEN LET i == CHOOSE k \in 1..Len(s) : s[k] = "," /\ \A j \in 1..(k - 1) : s[j] # ","
         IN [k \in 1..Len(s) |-> IF k = i THEN "." ELSE s[k]]
    ELSE s

\* split(':'): the sequence of fields between colons.
RECURSIVE splitColonFrom(_, _, _)
splitColonFrom(s, i, cur) ==
    IF i > Len(s) THEN <<cur>>
    ELSE IF s[i] = ":" THEN <<cur>> \o splitColonFrom(s, i + 1, <<>>)
    ELSE splitColonFrom(s, i + 1, Append(cur, s[i]))

splitColon(s) == splitColonFrom(s, 1, <<>>)

\* Value of a run of decimal digits.
RECURSIVE digitsValue(_)
digitsValue(ds) ==
    IF Len(ds) = 0 THEN 0
    ELSE 10 * digitsValue(SubSeq(ds, 1, Len(ds) - 1)) + digitVal(ds[Len(ds)])

\* Length of the longest prefix of s[i..] made of digits.
digitRun(s, i) ==
    IF i > Len(s) THEN 0
    ELSE CHOOSE n \in 0..(Len(s) - i + 1) :
             /\ \A k \in 0..(n - 1) : isDigit(s[i + k])
             /\ (i + n > Len(s) \/ ~isDigit(s[i + n]))

\* parseInt(field, 10) for an unsigned field: leading white space is skipped,
\* the longest digit prefix is read, and no digit at all is NaN.
parseInt10(field) ==
    LET t == IF \A i \in 1..Len(field) : isSpace(field[i]) THEN <<>>
             ELSE LET f == CHOOSE i \in 1..Len(field) :
                               ~isSpace(field[i]) /\ \A j \in 1..(i - 1) : isSpace(field[j])
                  IN Slice(field, f, Len(field))
         n == digitRun(t, 1)
    IN IF n = 0 THEN NotNumeric ELSE digitsValue(Slice(t, 1, n))

\* parseFloat(field) for an unsigned decimal field of at most nine digits
\* (no sign, no exponent): leading white space is skipped, the longest
\* prefix digits[.digits] is read and converted to the nearest double; a
\* field with no digit there is NaN.
parseFloat(field) ==
    LET t == IF \A i \in 1..Len(field) : isSpace(field[i]) THEN <<>>
             ELSE LET f == CHOOSE i \in 1..Len(field) :
                               ~isSpace(field[i]) /\ \A j \in 1..(i - 1) : isSpace(field[j])
                  IN Slice(field, f, Len(field))
        n == digitRun(t, 1)
        hasDot == n + 1 <= Len(t) /\ t[n + 1] = "."
        k == IF hasDot THEN digitRun(t, n + 2) ELSE 0
        decimal == digitsValue(Slice(t, 1, n) \o Slice(t, n + 2, n + 1 + k))
        steps == ((55 + 4 * k) \div chunkBits(10^k)) + 1
        q == scaledQuotient(decimal, 10^k, steps)
    IN IF n = 0 /\ k = 0 THEN [nan |-> TRUE, m |-> <<>>, e |-> 0]
       ELSE LET d == roundToDouble(q.quot, 0 - chunkBits(10^k) * steps, ~q.exact)
            IN [nan |-> FALSE, m |-> d.m, e |-> d.e]

\* n + d and d * k in double arithmetic, n and k integers, d a double: the
\* exact result rounded once.
plusDouble(n, d) ==
    IF d.e < 0 THEN roundToDouble(addBits(shiftLeft(bitsOf(n), 0 - d.e), d.m), d.e, FALSE)
    ELSE roundToDouble(addBits(bitsOf(n), shiftLeft(d.m, d.e)), 0, FALSE)

timesDouble(d, k) == roundToDouble(mulSmall(d.m, k), d.e, FALSE)

\* parseTime(timeString): (hours * 3600 + minutes * 60 + seconds) * 1000 in
\* double arithmetic, NaN when a field is not numeric, 0 for a falsy argument.
parseTime(timeString) ==
    IF Len(timeString) = 0 THEN Num(0)
    ELSE LET parts == splitColon(replaceFirstComma(timeString))
             hours == IF Len(parts) >= 1 THEN parseInt10(parts[1]) ELSE NotNumeric
             minutes == IF Len(parts) >= 2 THEN parseInt10(parts[2]) ELSE NotNumeric
             seconds == IF Len(parts) >= 3 THEN parseFloat(parts[3])
                        ELSE [nan |-> TRUE, m |-> <<>>, e |-> 0]
         IN IF hours = NotNumeric \/ minutes = NotNumeric \/ seconds.nan THEN NaN
            ELSE toNumber(timesDouble(plusDouble(hours * 3600 + minutes * 60, seconds),
                                      1000))

\* ---------------------------------------------------------- cue extraction
\* \d{2}:\d{2}:\d{2}<sep>\d{3} at position i.
isTimestampAt(s, i, sep) ==
    /\ i >= 1
    /\ i + 11 <= Len(s)
    /\ \A k \in {0, 1, 3, 4, 6, 7, 9, 10, 11} : isDigit(s[i + k])
    /\ s[i + 2] = ":"
    /\ s[i + 5] = ":"
    /\ s[i + 8] = sep

\* ([\s\S]*?)(?=\n\n|\n$|$) entered at position p: the position just past
\* the lazily matched text, i.e. the first k >= p where the lookahead holds.
lookaheadAt(s, k) == k > Len(s) \/ (s[k] = NL /\ (k = Len(s) \/ s[k + 1] = NL))

textEnd(s, p) ==
    IF p > Len(s) THEN p
    ELSE CHOOSE k \in p..(Len(s) + 1) :
             lookaheadAt(s, k) /\ \A j \in p..(k - 1) : ~lookaheadAt(s, j)

\* Length of the white-space run starting at i.
spaceRun(s, i) ==
    IF i > Len(s) THEN 0
    ELSE CHOOSE n \in 0..(Len(s) - i + 1) :
             /\ \A k \in 0..(n - 1) : isSpace(s[i + k])
             /\ (i + n > Len(s) \/ ~isSpace(s[i + n]))

\* The position itself: what lineEnd would be if (?:[^\n]*) consumed nothing.
lineEnd_noSkip(s, i) == i

\* Position of the first newline at or after i, Len(s) + 1 if there is none.
lineEnd(s, i) ==
    IF i > Len(s) THEN i
    ELSE CHOOSE k \in i..(Len(s) + 1) :
             (k > Len(s) \/ s[k] = NL) /\ \A j \in i..(k - 1) : s[j] # NL

NoMatch == [found |-> FALSE]

\* One attempt of the SRT pattern anchored at position i:
\* (\d+)\n(ts,) --> (ts,)\n([\s\S]*?)(?=\n\n|\n$|$)
srtMatchAt(s, i) ==
    LET n == digitRun(s, i)
        j == i + n
    IN IF /\ n >= 1
          /\ HasAt(s, j, <<NL>>)
          /\ isTimestampAt(s, j + 1, ",")
          /\ HasAt(s, j + 13, <<" ", "-", "-", ">", " ">>)
          /\ isTimestampAt(s, j + 18, ",")
          /\ HasAt(s, j + 30, <<NL>>)
       THEN LET k == textEnd(s, j + 31)
            IN [found |-> TRUE,
                start |-> Slice(s, j + 1, j + 12),
                end |-> Slice(s, j + 18, j + 29),
                text |-> Slice(s, j + 31, k - 1),
                lastIndex |-> k]
       ELSE NoMatch

\* One attempt of the VTT pattern anchored at position i:
\* (ts.)\s+-->\s+(ts.)(?:[^\n]*)\n([\s\S]*?)(?=\n\n|\n$|$)
vttMatchAt(s, i) ==
    IF ~isTimestampAt(s, i, ".") THEN NoMatch
    ELSE LET w1 == spaceRun(s, i + 12)
             a == i + 12 + w1
             w2 == spaceRun(s, a + 3)
             b == a + 3 + w2
         IN IF /\ w1 >= 1
               /\ HasAt(s, a, <<"-", "-", ">">>)
               /\ w2 >= 1
               /\ isTimestampAt(s, b, ".")
               /\ lineEnd(s, b + 12) <= Len(s)
            THEN LET p == lineEnd(s, b + 12) + 1
                     k == textEnd(s, p)
                 IN [found |-> TRUE,
                     start |-> Slice(s, i, i + 11),
                     end |-> Slice(s, b, b + 11),
                     text |-> Slice(s, p, k - 1),
                     lastIndex |-> k]
            ELSE NoMatch

\* pattern.exec(text) with the g flag: the leftmost match at or after from.
srtExec(s, from) ==
    LET hits == {i \in from..Len(s) : srtMatchAt(s, i).found}
    IN IF hits = {} THEN NoMatch
       ELSE srtMatchAt(s, CHOOSE i \in hits : \A j \in hits : i <= j)

vttExec(s, from) ==
    LET hits == {i \in from..Len(s) : vttMatchAt(s, i).found}
    IN IF hits = {} THEN NoMatch
       ELSE vttMatchAt(s, CHOOSE i \in hits : \A j \in hits : i <= j)

\* The cue pushed for one match (without its object identity).
cueOf(m) == [start |-> parseTime(m.start), end |-> parseTime(m.end), text |-> trim(m.text)]

\* parseSRT(text): the cues pushed by the while loop, in order.
RECURSIVE parseSRTFrom(_, _)
parseSRTFrom(s, from) ==
    LET m == srtExec(s, from)
    IN IF m.found THEN <<cueOf(m)>> \o parseSRTFrom(s, m.lastIndex) ELSE <<>>

parseSRT(text) == parseSRTFrom(text, 1)

\* parseVTT(text)
RECURSIVE parseVTTFrom(_, _)
parseVTTFrom(s, from) ==
    LET m == vttExec(s, from)
    IN IF m.found THEN <<cueOf(m)>> \o parseVTTFrom(s, m.lastIndex) ELSE <<>>

parseVTT(text) == parseVTTFrom(text, 1)

\* The cue list parseSubtitles(text, format) leaves in this.cues.
extractCues(text, format) ==
    LET normalizedText == normalizeLineEndings(text)
    IN IF format = "srt" THEN parseSRT(normalizedText) ELSE parseVTT(normalizedText)

\* ------------------------------------------------------------------ inputs
TwoDigits(n) == <<DigitChars[(n \div 10) + 1], DigitChars[(n % 10) + 1]>>

ThreeDigits(n) == <<DigitChars[(n \div 100) + 1]>> \o TwoDigits(n % 100)

\* The timestamp text HH:MM:SS<sep>mmm of a millisecond offset.
Stamp(ms, sep) ==
    TwoDigits(ms \div 3600000) \o <<":">> \o TwoDigits((ms \div 60000) % 60) \o <<":">>
        \o TwoDigits((ms \div 1000) % 60) \o <<sep>> \o ThreeDigits(ms % 1000)

Arrow == <<" ", "-", "-", ">", " ">>

\* An SRT payload with CRLF line endings in its first block: two cues with a
\* gap between them, the second with a two-line text.
\*   1 / 00:00:00,750 --> 00:00:01,000 / a
\*   2 / 00:00:02,000 --> 00:00:02,500 / b NL c
SrtPayload ==
    <<"1", CR, NL>> \o Stamp(750, ",") \o Arrow \o Stamp(1000, ",") \o <<CR, NL>>
        \o <<"a", CR, NL, CR, NL>>
        \o <<"2", NL>> \o Stamp(2000, ",") \o Arrow \o Stamp(2500, ",") \o <<NL>>
        \o <<"b", NL, "c", NL, NL>>

\* A VTT payload whose cues are out of order and overlap, the first with a
\* settings suffix on its timing line.
\*   00:00:01.500 --> 00:00:03.000 a:c / x
\*   00:00:00.750 --> 00:00:02.250 / y
VttPayload ==
    <<"W", "E", "B", "V", "T", "T", NL, NL>>
        \o Stamp(1500, ".") \o Arrow \o Stamp(3000, ".") \o <<" ", "a", ":", "c", NL>>
        \o <<"x", NL, NL>>
        \o Stamp(750, ".") \o Arrow \o Stamp(2250, ".") \o <<NL>>
        \o <<"y", NL>>

\* The response bodies the server may send.
Payloads == <<SrtPayload, VttPayload>>

Formats == {"srt", "vtt"}

\* A value a JavaScript condition treats as false ('' and undefined alike).
Absent == ""

\* String.prototype.toLowerCase on a track.Codec value: the letters A-Z are
\* mapped to a-z, every other character is kept.
UpperCase == <<"A", "B", "C", "D", "E", "F", "G", "H", "I", "J", "K", "L", "M",
               "N", "O", "P", "Q", "R", "S", "T", "U", "V", "W", "X", "Y", "Z">>

LowerCase == <<"a", "b", "c", "d", "e", "f", "g", "h", "i", "j", "k", "l", "m",
               "n", "o", "p", "q", "r", "s", "t", "u", "v", "w", "x", "y", "z">>

toLowerCase(str) ==
    [i \in 1..Len(str) |->
        IF \E k \in 1..Len(UpperCase) : UpperCase[k] = str[i]
        THEN LowerCase[CHOOSE k \in 1..Len(UpperCase) : UpperCase[k] = str[i]]
        ELSE str[i]]

\* A track.Codec that is missing (or empty): falsy in the test of line 61.
NoCodec == <<>>

\* The codec names the tracks declare, as character sequences.
CodecSubRip == <<"S", "u", "b", "R", "i", "p">>

Tracks == {[Codec |-> CodecSubRip, Index |-> "0"], [Codec |-> NoCodec, Index |-> "1"]}

\* The wider range of tracks used to exercise the format selection.
WideTracks ==
    Tracks \cup
    {[Codec |-> <<"s", "r", "t">>, Index |-> "2"],
     [Codec |-> <<"S", "R", "T">>, Index |-> "3"],
     [Codec |-> <<"a", "s", "s">>, Index |-> "4"],
     [Codec |-> <<"s", "u", "b", "r", "i", "p">>, Index |-> "5"],
     [Codec |-> <<"A", "S", "S">>, Index |-> "6"],
     [Codec |-> <<"v", "t", "t">>, Index |-> "7"],
     [Codec |-> <<"S", "r", "t">>, Index |-> "8"],
     [Codec |-> <<"S", "U", "B", "R", "I", "P">>, Index |-> "9"],
     [Codec |-> <<"P", "G", "S", "S", "U", "B">>, Index |-> "10"]}

ItemId == "item"
MediaSourceId == "ms"

NoAuth == [present |-> FALSE, serverAddress |-> Absent, accessToken |-> Absent]
PassedAuth == [present |-> TRUE, serverAddress |-> "http://a", accessToken |-> "tokA"]
StoredAuth == [present |-> TRUE, serverAddress |-> "http://b", accessToken |-> "tokB"]

\* An appearance configuration; a field that is missing is Absent.
Config(size, color, position, background) ==
    [subtitleSize |-> size, subtitleColor |-> color,
     subtitlePosition |-> position, subtitleBackground |-> background]

EmptyConfig == Config(Absent, Absent, Absent, Absent)

\* The argument of applyStyles: undefined, or a configuration object.
Undefined == [given |-> FALSE, value |-> EmptyConfig]
Given(c) == [given |-> TRUE, value |-> c]

StyleArgs ==
    {Undefined,
     Given(Config("huge", "#ffff00", Absent, "background"))}

\* The wider range of arguments used to exercise the appearance resolver:
\* partial configurations (size and position only, color only, background
\* only), every known position, and values outside the known names, one of
\* them a size naming a member every object inherits.
WideStyleArgs ==
    StyleArgs \cup
    {Given(Config("large", Absent, "top", Absent)),
     Given(Config(Absent, "#00ff00", Absent, Absent)),
     Given(Config(Absent, Absent, Absent, "none")),
     Given(Config("small", "#00ff00", "bottom-low", "drop-shadow")),
     Given(Config("extralarge", Absent, "bottom-high", "outline")),
     Given(Config("constructor", Absent, "sideways", Absent)),
     Given(Config("smaller", Absent, "middle", "background")),
     Given(Config("medium", "#ffffff", "bottom", Absent))}

\* What window.storage.getUserPreference('jellyfin_settings', null) yields:
\* no storage object at all, null, text JSON.parse rejects, or an object.
StoredPrefs ==
    {[kind |-> "nostorage", value |-> EmptyConfig],
     [kind |-> "null", value |-> EmptyConfig],
     [kind |-> "malformed", value |-> EmptyConfig],
     [kind |-> "json", value |-> Config(Absent, Absent, "middle", "none")]}

Times == {k * TickMs : k \in 0..MaxTick}

\* The millisecond offsets whose timestamps are given to parseTime on its own.
StampOffsets ==
    {hm * 60000 + sec * 1000 + f :
        hm \in {0, 99 * 60 + 59}, sec \in 0..MaxSeconds,
        f \in (0..MaxMillis) \cup {125, 500, 999}}

Separators == {",", "."}

\* ------------------------------------------------------------------- state
VARIABLES
    isEnabled,      \* this.isEnabled
    cues,           \* this.cues: sequence of cue objects
    activeCue,      \* this.activeCue: a cue object or NoCue (null)
    settings,       \* this.settings
    overlay,        \* this.overlay: the outer surface and its style, or null
    innerOverlay,   \* this.innerOverlay: the inner text surface, or null
    pending,        \* requests handed to ajax.request and not yet answered,
                    \* each with the format its callbacks captured
    issued,         \* number of loadTrack calls made so far
    lastTimeMs,     \* argument of the most recent update call, -1 before any
    lastOp,         \* the operation that ran last and what it did
    storage,        \* the persistent key-value store behind getFromStorage /
                    \* saveToStorage: the server data, the active server id,
                    \* the active user id and the auth record
    calls,          \* the store calls in flight, each with its position (the
                    \* await it is suspended at) and its local variables
    session,        \* AuthProvider: the context state and the configuration
                    \* of the API client
    memberUrls      \* the url property of the members every object inherits
                    \* from Object.prototype (servers['constructor'] is the
                    \* function Object): undefined until updateServer
                    \* assigns it (line 177)

vars == <<isEnabled, cues, activeCue, settings, overlay, innerOverlay, pending, issued,
          lastTimeMs, lastOp, storage, calls, session, memberUrls>>

\* The cue objects one parse allocates: the extracted cues, each a fresh
\* object named by the request that produced it and its position.
cueObjects(list, token) ==
    [i \in 1..Len(list) |->
        [id |-> <<token, i>>, start |-> list[i].start, end |-> list[i].end,
         text |-> list[i].text]]

\* The objects a parse the host calls on its own allocates are named by a
\* number no cue object the program still holds carries: the first of -1,
\* -2, ... that names none of them.
freshToken(cs, active) ==
    LET held == {cs[i].id[1] : i \in 1..Len(cs)} \cup {active.id[1]}
    IN CHOOSE k \in (0 - (Cardinality(held) + 1))..(0 - 1) :
           /\ k \notin held
           /\ \A j \in (k + 1)..(0 - 1) : j \in held

\* Memo of extractCues over the payloads the server may send.
Extracted == [d \in 1..Len(Payloads) |-> [f \in Formats |-> extractCues(Payloads[d], f)]]

NullOverlay ==
    [exists |-> FALSE, display |-> Absent, top |-> Absent, bottom |-> Absent,
     left |-> Absent, right |-> Absent, justifyContent |-> Absent]

NullInner ==
    [exists |-> FALSE, innerHTML |-> <<>>, hide |-> FALSE, fontSize |-> Absent,
     color |-> Absent, marginTop |-> Absent, marginBottom |-> Absent,
     textShadow |-> Absent, background |-> Absent]

\* null as the value of this.activeCue.
NoCue == [id |-> <<0, 0>>, start |-> Num(0), end |-> Num(0), text |-> <<>>]

\* What the last operation did: its name, the number of assignments it made
\* to innerHTML, whether it raised, what it sent to the diagnostic sink
\* (console.error / debugOverlay.error) and, for a delivered response, the
\* payload and the format it was parsed with.
\* For loadTrack it also keeps the URL requested (empty when no request was
\* made), what the caller could observe of the object before the call,
\* whether authentication data was available (passed in or stored) and the
\* codec the track declared; for a callback, the number of the loadTrack call
\* that issued the request; for applyStyles, its argument.
NoSnapshot == [isEnabled |-> FALSE, cues |-> <<>>, activeCue |-> NoCue, display |-> Absent]

Op(name, writes, threw, reports) ==
    [op |-> name, writes |-> writes, threw |-> threw, reports |-> reports,
     token |-> 0, data |-> 0, format |-> Absent, url |-> <<>>, prior |-> NoSnapshot,
     auth |-> FALSE, codec |-> NoCodec, arg |-> Undefined]

\* The store before anything has been saved: no server data (getAllServers
\* then returns {}), no active server id, no active user id.
\* No record under the 'auth' key.
NoAuthData == [present |-> FALSE, serverUrl |-> Absent, userId |-> Absent, token |-> Absent]

EmptyStorage ==
    [servers |-> <<>>, activeServer |-> Absent, activeUser |-> Absent, auth |-> NoAuthData]

\* The slots a call can be in flight in.
CallIds == {1, 2, 3}

\* null as the value of activeServerInfo.
NoActiveInfo == [present |-> FALSE, serverId |-> Absent, userId |-> Absent]

\* AuthProvider after mounting on an empty store: nobody is signed in and the
\* API client has no server and no credentials.
SignedOut ==
    [isAuthenticated |-> FALSE, user |-> Absent, serverUrl |-> Absent,
     serverName |-> Absent, accessToken |-> Absent, activeServerInfo |-> NoActiveInfo,
     apiServer |-> Absent, apiUserId |-> Absent, apiToken |-> Absent]


\* A field read from an object that does not have it.
undefinedValue == "[undefined]"

\* The property names every object literal inherits from Object.prototype;
\* looked up on an object each yields a function (or the prototype), all truthy.
ObjectPrototypeKeys ==
    {"constructor", "toString", "toLocaleString", "valueOf", "hasOwnProperty",
     "isPrototypeOf", "propertyIsEnumerable", "__proto__", "__defineGetter__",
     "__defineSetter__", "__lookupGetter__", "__lookupSetter__"}

\* No url has been assigned on any inherited member.
NoMemberUrls == [key \in ObjectPrototypeKeys |-> undefinedValue]

\* null as the value a lookup returns.
NullEntry ==
    [isNull |-> TRUE, id |-> undefinedValue, serverId |-> undefinedValue,
     url |-> undefinedValue, name |-> undefinedValue, userId |-> undefinedValue,
     accessToken |-> undefinedValue]

\* null as the value getServerAuth returns.
NoServerAuth ==
    [isNull |-> TRUE, serverAddress |-> undefinedValue, userId |-> undefinedValue,
     accessToken |-> undefinedValue, serverId |-> undefinedValue]

\* What an awaited call hands to its caller: an exception (threw) or a
\* value, of which the caller reads the field its callee fills.
NoValue ==
    [threw |-> FALSE, bool |-> FALSE, entry |-> NullEntry, auth |-> NoServerAuth,
     count |-> 0, list |-> <<>>, serverId |-> Absent]

\* A call slot no call has been made in. A call keeps its function (op), its
\* arguments, whether it is in flight (pc), the functions it is inside of
\* (stack), what it returned (result) and what its caller could observe of
\* the store and the session when calling (before).
NotObserved == [storage |-> EmptyStorage, session |-> SignedOut]

IdleCall ==
    [op |-> "none", pc |-> "idle", stack |-> <<>>, result |-> NoValue,
     serverUrl |-> Absent, serverId |-> Absent, userId |-> Absent, adding |-> FALSE,
     before |-> NotObserved, made |-> 0]

\* constructor + init(): both surfaces created, the outer one hidden; nothing
\* has been saved to the store.
Init ==
    /\ isEnabled = FALSE
    /\ cues = <<>>
    /\ activeCue = NoCue
    /\ settings = EmptyConfig
    /\ overlay = [NullOverlay EXCEPT !.exists = TRUE, !.display = "none"]
    /\ innerOverlay = [NullInner EXCEPT !.exists = TRUE]
    /\ pending = {}
    /\ issued = 0
    /\ lastTimeMs = -1
    /\ lastOp = Op("init", 0, FALSE, {})
    /\ storage = EmptyStorage
    /\ calls = [c \in CallIds |-> IdleCall]
    /\ session = SignedOut
    /\ memberUrls = NoMemberUrls

\* ---------------------------------------------------------- loadSettings
\* loadSettings(): the stored fields that are truthy overwrite this.settings
\* field by field; a JSON.parse failure is caught and logged.
loadSettings(st, pref) ==
    IF pref.kind = "json"
    THEN LET parsed == pref.value
             pick(old, new) == IF new # Absent THEN new ELSE old
         IN [settings |-> Config(pick(st.subtitleSize, parsed.subtitleSize),
                                 pick(st.subtitleColor, parsed.subtitleColor),
                                 pick(st.subtitlePosition, parsed.subtitlePosition),
                                 pick(st.subtitleBackground, parsed.subtitleBackground)),
             reports |-> {}]
    ELSE IF pref.kind = "malformed"
    THEN [settings |-> st, reports |-> {"settings-error"}]
    ELSE [settings |-> st, reports |-> {}]

\* ----------------------------------------------------------- applyStyles
sizes == [smaller |-> "2.2em", small |-> "2.8em", medium |-> "3.5em",
          large |-> "4.5em", extralarge |-> "5.5em"]

\* What such a lookup yields, as a value no font size equals.
InheritedMember == "[Object.prototype member]"

\* sizes[key] as JavaScript evaluates it; Absent stands for undefined.
sizesLookup(key) ==
    IF key \in DOMAIN sizes THEN sizes[key]
    ELSE IF key \in ObjectPrototypeKeys THEN InheritedMember
    ELSE Absent

\* sizes[conf.subtitleSize || 'medium'] || sizes['medium']
resolveFontSize(conf) ==
    LET key == IF conf.subtitleSize # Absent THEN conf.subtitleSize ELSE "medium"
    IN IF sizesLookup(key) # Absent THEN sizesLookup(key) ELSE sizes["medium"]

resolveColor(conf) == IF conf.subtitleColor # Absent THEN conf.subtitleColor ELSE "#ffffff"

resolvePosition(conf) ==
    IF conf.subtitlePosition # Absent THEN conf.subtitlePosition ELSE "bottom"

resolveJustify(position) ==
    IF position = "middle" THEN "center"
    ELSE IF position = "top" THEN "flex-start" ELSE "flex-end"

resolveMarginTop(position) == IF position = "top" THEN "10%" ELSE "0"

resolveMarginBottom(position) ==
    IF position = "top" THEN "0"
    ELSE IF position = "bottom-low" THEN "2%"
    ELSE IF position = "bottom-high" THEN "20%"
    ELSE IF position = "middle" THEN "0"
    ELSE "10%"

resolveBackgroundMode(conf) ==
    IF conf.subtitleBackground # Absent THEN conf.subtitleBackground ELSE "drop-shadow"

DropShadow == "0px 0px 8px rgba(0, 0, 0, 1), 0px 0px 4px rgba(0, 0, 0, 1)"
Panel == "rgba(0, 0, 0, 0.7)"

\* Faulty variant of resolveTextShadow: the shadow is always drawn.
resolveTextShadow_always(bg) == DropShadow

resolveTextShadow(bg) == IF bg = "drop-shadow" THEN DropShadow ELSE "none"

resolveBackground(bg) == IF bg = "background" THEN Panel ELSE "none"

\* Faulty variant of rerender: the active cue is not drawn again.
rerender_skips(html, ac) == html

\* Lines 287-290: the innerHTML after the closing step of applyStyles, which
\* draws the active cue's text again when there is an active cue.
rerender(html, ac) == IF ac # NoCue THEN htmlText(ac.text) ELSE html

\* applyStyles(settings) run on the given object state: the new settings,
\* surfaces and the number of innerHTML assignments made.
applyStyles(arg, st, ov, inn, ac) ==
    LET conf == IF arg.given THEN arg.value ELSE st
        position == resolvePosition(conf)
        bg == resolveBackgroundMode(conf)
    IN IF ~inn.exists
       THEN [settings |-> conf, overlay |-> ov, innerOverlay |-> inn, writes |-> 0]
       ELSE [settings |-> conf,
             overlay |-> [ov EXCEPT !.display = "flex", !.top = "0", !.bottom = "0",
                                    !.left = "0", !.right = "0",
                                    !.justifyContent = resolveJustify(position)],
             innerOverlay |-> [inn EXCEPT !.fontSize = resolveFontSize(conf),
                                          !.color = resolveColor(conf),
                                          !.marginTop = resolveMarginTop(position),
                                          !.marginBottom = resolveMarginBottom(position),
                                          !.textShadow = resolveTextShadow(bg),
                                          !.background = resolveBackground(bg),
                                          !.innerHTML = rerender(@, ac)],
             writes |-> IF ac # NoCue THEN 1 ELSE 0]

\* Faulty variant of applyStylesCall: the call also forgets the active cue.
applyStylesCall_dropsActiveCue(arg) ==
    LET r == applyStyles(arg, settings, overlay, innerOverlay, activeCue)
    IN /\ settings' = r.settings
       /\ overlay' = r.overlay
       /\ innerOverlay' = r.innerOverlay
       /\ activeCue' = NoCue
       /\ lastOp' = [Op("applyStyles", r.writes, FALSE, {}) EXCEPT !.arg = arg]
       /\ UNCHANGED <<isEnabled, cues, pending, issued, lastTimeMs, storage, calls, session, memberUrls>>

\* A call of applyStyles by the host with the given argument.
applyStylesCall(arg) ==
    LET r == applyStyles(arg, settings, overlay, innerOverlay, activeCue)
    IN /\ settings' = r.settings
       /\ overlay' = r.overlay
       /\ innerOverlay' = r.innerOverlay
       /\ lastOp' = [Op("applyStyles", r.writes, FALSE, {}) EXCEPT !.arg = arg]
       /\ UNCHANGED <<isEnabled, cues, activeCue, pending, issued, lastTimeMs, storage, calls, session, memberUrls>>

ApplyStyles == \E arg \in StyleArgs : applyStylesCall(arg)

ApplyWideStyles == \E arg \in WideStyleArgs : applyStylesCall(arg)

\* -------------------------------------------------------------- loadTrack
\* Faulty variant of trackFormat: only the literal codec 'srt' selects SRT.
trackFormat_literalOnly(track) ==
    IF track.Codec = <<"s", "r", "t">> THEN "srt" ELSE "vtt"

\* The format requested for a track (lines 61-69).
trackFormat(track) ==
    LET lower == toLowerCase(IF track.Codec # NoCodec THEN track.Codec
                             ELSE <<"v", "t", "t">>)
        format == IF lower = <<"s", "u", "b", "r", "i", "p">> THEN <<"s", "r", "t">>
                  ELSE lower
    IN IF format # <<"s", "r", "t">> THEN "vtt" ELSE "srt"

\* The request URL, as the pieces concatenated in lines 75-78.
trackUrl(track, userAuth, format) ==
    <<userAuth.serverAddress, "/Videos/", ItemId, "/", MediaSourceId, "/Subtitles/",
      track.Index, "/Stream.", format,
      "?api_key=", userAuth.accessToken,
      "?api_key=", userAuth.accessToken>>

\* Lines 53-57 and 82: the requests one loadTrack call hands to ajax.request,
\* none when there is no authentication data, otherwise one.
requests(userAuth, token, format) ==
    IF ~userAuth.present THEN {} ELSE {[token |-> token, format |-> format]}

\* What the caller of loadTrack can observe of the object before the call.
Snapshot ==
    [isEnabled |-> isEnabled, cues |-> cues, activeCue |-> activeCue,
     display |-> overlay.display]

\* loadTrack(track, item, mediaSource, auth) with the stored credentials and
\* the stored preferences it reads.
loadTrackCall(track, auth, stored, pref) ==
        /\ issued < MaxLoads
        /\ issued' = issued + 1
        /\ cues' = <<>>
        /\ isEnabled' = TRUE
        /\ UNCHANGED <<activeCue, lastTimeMs, storage, calls, session, memberUrls>>
        /\ IF ~overlay.exists
           THEN \* this.overlay.style raises a TypeError on the null surface
                /\ lastOp' = [Op("loadTrack", 0, TRUE, {})
                                 EXCEPT !.prior = Snapshot,
                                        !.auth = auth.present \/ stored.present,
                                        !.codec = track.Codec]
                /\ UNCHANGED <<settings, overlay, innerOverlay, pending>>
           ELSE LET shown == [overlay EXCEPT !.display = "flex"]
                    ls == loadSettings(settings, pref)
                    r == applyStyles(Undefined, ls.settings, shown, innerOverlay, activeCue)
                    userAuth == IF auth.present THEN auth ELSE stored
                    format == trackFormat(track)
                IN /\ settings' = r.settings
                   /\ overlay' = r.overlay
                   /\ innerOverlay' = r.innerOverlay
                   /\ pending' = pending \cup requests(userAuth, issued + 1, format)
                   /\ IF ~userAuth.present
                      THEN lastOp' = [Op("loadTrack", r.writes, FALSE,
                                         ls.reports \cup {"no-auth"})
                                         EXCEPT !.prior = Snapshot,
                                                !.codec = track.Codec]
                      ELSE lastOp' = [Op("loadTrack", r.writes, FALSE, ls.reports)
                                         EXCEPT !.token = issued + 1,
                                                !.format = format,
                                                !.url = trackUrl(track, userAuth, format),
                                                !.prior = Snapshot,
                                                !.auth = TRUE,
                                                !.codec = track.Codec]

LoadTrack ==
    \E track \in Tracks, auth \in {NoAuth, PassedAuth}, stored \in {NoAuth, StoredAuth},
       pref \in StoredPrefs :
        loadTrackCall(track, auth, stored, pref)

LoadWideTrack ==
    \E track \in WideTracks, auth \in {NoAuth, PassedAuth}, stored \in {NoAuth, StoredAuth},
       pref \in StoredPrefs :
        loadTrackCall(track, auth, stored, pref)

\* loadSettings() called by the host (lines 156-173): the stored preferences
\* are merged into this.settings; nothing is drawn.
LoadSettingsCall ==
    \E pref \in StoredPrefs :
        LET ls == loadSettings(settings, pref)
        IN /\ settings' = ls.settings
           /\ lastOp' = Op("loadSettings", 0, FALSE, ls.reports)
           /\ UNCHANGED <<isEnabled, cues, activeCue, overlay, innerOverlay, pending,
                          issued, lastTimeMs, storage, calls, session, memberUrls>>

\* --------------------------------------------------------- parseSubtitles
\* The success callback: parseSubtitles(data, format) with the format the
\* issuing loadTrack captured, data being the payload numbered d.
onSuccess(req, d) ==
    LET parsed == cueObjects(Extracted[d][req.format], req.token)
        r == applyStyles(Given(settings), settings, overlay, innerOverlay, activeCue)
    IN /\ cues' = parsed
       /\ settings' = r.settings
       /\ overlay' = r.overlay
       /\ innerOverlay' = r.innerOverlay
       /\ pending' = pending \ {req}
       /\ lastOp' = [Op("deliver", r.writes, FALSE, {}) EXCEPT !.token = req.token,
                                                                !.data = d,
                                                                !.format = req.format]
       /\ UNCHANGED <<isEnabled, activeCue, issued, lastTimeMs, storage, calls, session, memberUrls>>

DeliverSuccess == \E req \in pending, d \in 1..Len(Payloads) : onSuccess(req, d)

\* parseSubtitles(text, format) called on its own (lines 111-124) with the
\* payload numbered d: the cue list is replaced by what the extractor of the
\* format finds and the current settings are applied; no request is involved.
\* The program itself calls it from the success callback only (line 87).
parseSubtitlesCall(d, format) ==
    LET parsed == cueObjects(Extracted[d][format], freshToken(<<>>, activeCue))
        r == applyStyles(Given(settings), settings, overlay, innerOverlay, activeCue)
    IN /\ cues' = parsed
       /\ settings' = r.settings
       /\ overlay' = r.overlay
       /\ innerOverlay' = r.innerOverlay
       /\ lastOp' = [Op("parseSubtitles", r.writes, FALSE, {})
                        EXCEPT !.data = d, !.format = format]
       /\ UNCHANGED <<isEnabled, activeCue, pending, issued, lastTimeMs,
                      storage, calls, session, memberUrls>>

\* The host hands parseSubtitles any payload under any format.
ParseWideSubtitlesCall ==
    \E d \in 1..Len(Payloads), format \in Formats : parseSubtitlesCall(d, format)

\* Faulty variant of onError: the callback also switches the overlay off.
onError_disables(req) ==
    /\ pending' = pending \ {req}
    /\ lastOp' = [Op("error", 0, FALSE, {"fetch-failed"}) EXCEPT !.token = req.token]
    /\ isEnabled' = FALSE
    /\ overlay' = IF overlay.exists THEN [overlay EXCEPT !.display = "none"] ELSE overlay
    /\ UNCHANGED <<cues, activeCue, settings, innerOverlay, issued, lastTimeMs, storage, calls, session, memberUrls>>

\* The error callback: the failure is logged, nothing else happens.
onError(req) ==
    /\ pending' = pending \ {req}
    /\ lastOp' = [Op("error", 0, FALSE, {"fetch-failed"}) EXCEPT !.token = req.token]
    /\ UNCHANGED <<isEnabled, cues, activeCue, settings, overlay, innerOverlay, issued,
                   lastTimeMs, storage, calls, session, memberUrls>>

DeliverError == \E req \in pending : onError(req)

\* ----------------------------------------------------------------- update
\* The predicate of line 196: timeMs >= cue.start && timeMs <= cue.end.
contains(cue, timeMs) == numLeqInt(cue.start, timeMs) /\ intLeqNum(timeMs, cue.end)

\* this.cues.find(cue => timeMs >= cue.start && timeMs <= cue.end); NoCue
\* stands for the undefined that find returns when no cue matches.
\* Faulty variant of find: the last matching cue instead of the first.
find_lastMatch(cs, timeMs) ==
    LET hits == {i \in 1..Len(cs) : contains(cs[i], timeMs)}
    IN IF hits = {} THEN NoCue
       ELSE cs[CHOOSE i \in hits : \A j \in hits : i >= j]

find(cs, timeMs) ==
    LET hits == {i \in 1..Len(cs) : contains(cs[i], timeMs)}
    IN IF hits = {} THEN NoCue
       ELSE cs[CHOOSE i \in hits : \A j \in hits : i <= j]

\* Faulty variant of returnsEarly: the isEnabled test is missing.
returnsEarly_ignoresEnabled(enabled, cs) == Len(cs) = 0

\* Line 193: the early return.
returnsEarly(enabled, cs) == ~enabled \/ Len(cs) = 0

\* Faulty variant of sameObject: the matched cue is always taken as new.
sameObject_never(a, b) == FALSE

\* Line 199: this.activeCue !== currentCue compares object identity.
sameObject(a, b) == a.id = b.id

\* Lines 204-205 on the inner surface.
showCue(inn, cue) == [inn EXCEPT !.innerHTML = htmlText(cue.text), !.hide = FALSE]

\* Faulty variant of clearCue: the text is hidden but not removed.
clearCue_keepsText(inn) == [inn EXCEPT !.hide = TRUE]

\* Lines 211-212 on the inner surface.
clearCue(inn) == [inn EXCEPT !.innerHTML = <<>>, !.hide = TRUE]

update(timeMs) ==
    /\ lastTimeMs' = timeMs
    /\ UNCHANGED <<isEnabled, cues, settings, overlay, pending, issued, storage, calls, session, memberUrls>>
    /\ IF returnsEarly(isEnabled, cues)
       THEN /\ lastOp' = Op("update", 0, FALSE, {})
            /\ UNCHANGED <<activeCue, innerOverlay>>
       ELSE LET currentCue == find(cues, timeMs)
            IN IF currentCue # NoCue
               THEN IF ~sameObject(activeCue, currentCue)
                    THEN /\ activeCue' = currentCue
                         /\ IF innerOverlay.exists
                            THEN /\ innerOverlay' = showCue(innerOverlay, currentCue)
                                 /\ lastOp' = Op("update", 1, FALSE, {})
                            ELSE \* innerHTML of null: TypeError
                                 /\ innerOverlay' = innerOverlay
                                 /\ lastOp' = Op("update", 0, TRUE, {})
                    ELSE /\ lastOp' = Op("update", 0, FALSE, {})
                         /\ UNCHANGED <<activeCue, innerOverlay>>
               ELSE IF activeCue # NoCue
                    THEN /\ activeCue' = NoCue
                         /\ IF innerOverlay.exists
                            THEN /\ innerOverlay' = clearCue(innerOverlay)
                                 /\ lastOp' = Op("update", 1, FALSE, {})
                            ELSE /\ innerOverlay' = innerOverlay
                                 /\ lastOp' = Op("update", 0, TRUE, {})
                    ELSE /\ lastOp' = Op("update", 0, FALSE, {})
                         /\ UNCHANGED <<activeCue, innerOverlay>>

Update == \E timeMs \in Times : update(timeMs)

\* ------------------------------------------------------- disable, destroy
\* disable() on the given object state.
disable(ov, inn) ==
    [isEnabled |-> FALSE,
     cues |-> <<>>,
     overlay |-> IF ov.exists THEN [ov EXCEPT !.display = "none"] ELSE ov,
     innerOverlay |-> IF ov.exists THEN [inn EXCEPT !.innerHTML = <<>>] ELSE inn,
     writes |-> IF ov.exists THEN 1 ELSE 0]

Disable ==
    LET r == disable(overlay, innerOverlay)
    IN /\ isEnabled' = r.isEnabled
       /\ cues' = r.cues
       /\ overlay' = r.overlay
       /\ innerOverlay' = r.innerOverlay
       /\ lastOp' = Op("disable", r.writes, FALSE, {})
       /\ UNCHANGED <<activeCue, settings, pending, issued, lastTimeMs, storage, calls, session, memberUrls>>

Destroy ==
    LET r == disable(overlay, innerOverlay)
    IN /\ isEnabled' = r.isEnabled
       /\ cues' = <<>>
       /\ activeCue' = NoCue
       /\ overlay' = NullOverlay
       /\ innerOverlay' = NullInner
       /\ lastOp' = Op("destroy", r.writes, FALSE, {})
       /\ UNCHANGED <<settings, pending, issued, lastTimeMs, storage, calls, session, memberUrls>>

\* init() called by the host (lines 22-35): when this.overlay is null, as it
\* is after destroy(), both surfaces are created anew, the outer one hidden;
\* on an object that has its surfaces nothing happens.
InitCall ==
    /\ overlay' = IF overlay.exists THEN overlay
                  ELSE [NullOverlay EXCEPT !.exists = TRUE, !.display = "none"]
    /\ innerOverlay' = IF overlay.exists THEN innerOverlay
                       ELSE [NullInner EXCEPT !.exists = TRUE]
    /\ lastOp' = Op("init", 0, FALSE, {})
    /\ UNCHANGED <<isEnabled, cues, activeCue, settings, pending, issued, lastTimeMs,
                   storage, calls, session, memberUrls>>

Next ==
    \/ InitCall
    \/ LoadSettingsCall
    \/ LoadTrack
    \/ DeliverSuccess
    \/ DeliverError
    \/ Update
    \/ ApplyStyles
    \/ Disable
    \/ Destroy

Spec == Init /\ [][Next]_vars

\* The appearance resolver under the wider range of configurations, through
\* every method that reaches it: the host loads tracks (which reads the
\* stored preferences), applies styles, and parseSubtitles applies the
\* current settings.
StyleNext ==
    \/ LoadSettingsCall
    \/ LoadTrack
    \/ ParseWideSubtitlesCall
    \/ ApplyWideStyles

StyleSpec == Init /\ [][StyleNext]_vars

\* Memo of parseTime over the timestamps HH:MM:SS<sep>mmm of the offsets.
ParsedStamp == [ms \in StampOffsets |-> [sep \in Separators |-> parseTime(Stamp(ms, sep))]]

\* The track loader under the wider range of tracks: tracks are loaded and
\* their responses delivered.
LoaderNext ==
    \/ LoadWideTrack
    \/ DeliverSuccess

LoaderSpec == Init /\ [][LoaderNext]_vars

\* parseTime on its own, applied to the timestamp HH:MM:SS<sep>mmm of an
\* offset: lastOp keeps the argument and the value returned.
ParseTimeCall ==
    \E ms \in StampOffsets, sep \in Separators :
        /\ lastOp' = [op |-> "parseTime", ms |-> ms, sep |-> sep,
                      timeString |-> Stamp(ms, sep),
                      result |-> ParsedStamp[ms][sep]]
        /\ UNCHANGED <<isEnabled, cues, activeCue, settings, overlay, innerOverlay,
                       pending, issued, lastTimeMs, storage, calls, session, memberUrls>>

\* Timestamps that are not of the form HH:MM:SS<sep>mmm: empty (also what a
\* missing argument amounts to), a non-numeric hour, minute or second field,
\* and fewer than three fields.
MalformedStamps ==
    <<<<>>,
      <<"x", "x", ":", "0", "0", ":", "0", "1", ",", "0", "0", "0">>,
      <<"0", "0", ":", "x", "x", ":", "0", "1", ",", "0", "0", "0">>,
      <<"0", "0", ":", "0", "0", ":", "x", "x">>,
      <<"0", "0", ":", "0", "1">>,
      <<"5">>,
      <<":", ":">>>>

\* Memo of parseTime over the malformed timestamps.
ParsedMalformed == [i \in 1..Len(MalformedStamps) |-> parseTime(MalformedStamps[i])]

\* parseTime on its own, applied to a malformed timestamp.
ParseMalformedCall ==
    \E i \in 1..Len(MalformedStamps) :
        /\ lastOp' = [op |-> "parseTime(malformed)", threw |-> FALSE,
                      timeString |-> MalformedStamps[i],
                      result |-> ParsedMalformed[i]]
        /\ UNCHANGED <<isEnabled, cues, activeCue, settings, overlay, innerOverlay,
                       pending, issued, lastTimeMs, storage, calls, session, memberUrls>>

\* SRT blocks as they occur in subtitle files. A block is an index line, a
\* timing line and its text lines; wellFormed tells whether it has a numeric
\* index line, a timing line 'start --> end' with comma timestamps and at
\* least one text line, and text is what its text lines read once trimmed.
GoodOne ==
    [index |-> <<"1">>, start |-> 500, end |-> 1000, sep |-> ",",
     lines |-> <<"a">>, wellFormed |-> TRUE, text |-> <<"a">>]

GoodTwo ==
    [index |-> <<"1", "2">>, start |-> 1500, end |-> 2000, sep |-> ",",
     lines |-> <<" ", "b", NL, "c", " ">>, wellFormed |-> TRUE, text |-> <<"b", NL, "c">>]

DotTimed ==
    [index |-> <<"3">>, start |-> 1000, end |-> 1500, sep |-> ".",
     lines |-> <<"m">>, wellFormed |-> FALSE, text |-> <<"m">>]

NoIndex ==
    [index |-> <<>>, start |-> 1000, end |-> 1500, sep |-> ",",
     lines |-> <<"q">>, wellFormed |-> FALSE, text |-> <<"q">>]

NoText ==
    [index |-> <<"4">>, start |-> 0, end |-> 500, sep |-> ",",
     lines |-> <<>>, wellFormed |-> FALSE, text |-> <<>>]

SrtBlocks == {GoodOne, GoodTwo, DotTimed, NoIndex, NoText}

\* Files of one block and of two blocks.
SrtBlockLists == {<<b>> : b \in SrtBlocks} \cup {<<b, c>> : b, c \in SrtBlocks}

\* What follows the last block: the end of input or one line break.
Endings == {<<>>, <<NL>>}

blockText(b) ==
    (IF b.index = <<>> THEN <<>> ELSE b.index \o <<NL>>)
        \o Stamp(b.start, b.sep) \o Arrow \o Stamp(b.end, b.sep) \o <<NL>> \o b.lines

\* The file: the blocks separated by one blank line, then the ending.
SrtFile(blocks, ending) ==
    (IF Len(blocks) = 2 THEN blockText(blocks[1]) \o <<NL, NL>> \o blockText(blocks[2])
     ELSE blockText(blocks[1])) \o ending

\* Memo of parseSRT over the files.
ParsedSrt == [bl \in SrtBlockLists |-> [e \in Endings |-> parseSRT(SrtFile(bl, e))]]

\* parseSRT on its own, applied to a file of blocks: the cues found are
\* pushed onto this.cues, behind the cues already there. Calls that would
\* make this.cues longer than MaxParsedCues are left out.
ParseSrtCall ==
    \E bl \in SrtBlockLists, e \in Endings :
        /\ Len(cues) + Len(ParsedSrt[bl][e]) <= MaxParsedCues
        /\ cues' = cues \o cueObjects(ParsedSrt[bl][e], freshToken(cues, activeCue))
        /\ lastOp' = [op |-> "parseSRT", blocks |-> bl, ending |-> e,
                      text |-> SrtFile(bl, e), result |-> ParsedSrt[bl][e]]
        /\ UNCHANGED <<isEnabled, activeCue, settings, overlay, innerOverlay,
                       pending, issued, lastTimeMs, storage, calls, session, memberUrls>>

\* WebVTT cues as they occur in subtitle files: a timing line with dot
\* timestamps, optionally followed by cue settings, and the text lines.
VttCueX == [start |-> 1500, end |-> 2000, lines |-> <<"x">>]

VttCueY == [start |-> 500, end |-> 1500, lines |-> <<"y", NL, "z">>]

VttCues == {VttCueX, VttCueY}

\* The settings that may follow the end timestamp; the empty one is no suffix.
NoSuffix == <<>>

Suffixes == {NoSuffix, <<" ", "a", ":", "c">>, <<" ", "l", ":", "0", " ", "s", ":", "9">>}

\* Files of one cue and of two cues, each cue with its settings suffix.
VttEntries == {[cue |-> c, suffix |-> x] : c \in VttCues, x \in Suffixes}

VttEntryLists == {<<a>> : a \in VttEntries} \cup {<<a, b>> : a, b \in VttEntries}

entryText(a) ==
    Stamp(a.cue.start, ".") \o Arrow \o Stamp(a.cue.end, ".") \o a.suffix
        \o <<NL>> \o a.cue.lines

\* The file: the header, then the cues separated by one blank line, then the
\* ending.
VttFile(entries, ending) ==
    <<"W", "E", "B", "V", "T", "T", NL, NL>>
        \o (IF Len(entries) = 2
            THEN entryText(entries[1]) \o <<NL, NL>> \o entryText(entries[2])
            ELSE entryText(entries[1])) \o ending

\* The same file with every settings suffix taken away.
withoutSuffix(entries) == [i \in 1..Len(entries) |-> [entries[i] EXCEPT !.suffix = NoSuffix]]

\* Memo of parseVTT over the files.
ParsedVtt == [el \in VttEntryLists |-> [e \in Endings |-> parseVTT(VttFile(el, e))]]

\* parseVTT on its own, applied to a file of cues: the cues found are pushed
\* onto this.cues, behind the cues already there.
ParseVttCall ==
    \E el \in VttEntryLists, e \in Endings :
        /\ Len(cues) + Len(ParsedVtt[el][e]) <= MaxParsedCues
        /\ cues' = cues \o cueObjects(ParsedVtt[el][e], freshToken(cues, activeCue))
        /\ lastOp' = [op |-> "parseVTT", entries |-> el, ending |-> e,
                      text |-> VttFile(el, e), result |-> ParsedVtt[el][e]]
        /\ UNCHANGED <<isEnabled, activeCue, settings, overlay, innerOverlay,
                       pending, issued, lastTimeMs, storage, calls, session, memberUrls>>

\* parseTime on its own.
ParserNext ==
    \/ ParseTimeCall
    \/ ParseMalformedCall

ParserSpec == Init /\ [][ParserNext]_vars

\* parseSRT and parseVTT on their own, on one object.
CueParserNext ==
    \/ ParseSrtCall
    \/ ParseVttCall

CueParserSpec == Init /\ [][CueParserNext]_vars

\* ------------------------------------------------------ multi-server store
\* The persistent store holds three keys: the server data (an object keyed by
\* server id whose entries hold an object of users keyed by user id), the
\* active server id and the active user id. Objects are kept as sequences in
\* insertion order, the order for...in walks them in.
\* The server ids, in the order unused ones are handed out.
IdOrder == <<"s1", "s2", "s3">>

ServerIds == {IdOrder[i] : i \in 1..Len(IdOrder)}

UserIds == {"u1", "u2"}

Urls == {"http://a", "http://b"}

ServerNames == {"Home"}

UserNames == {"ann"}

AccessTokens == {"k1"}

\* The instants new Date() may yield.
Instants == {1, 2}

\* The ids a caller may pass: the ids in use, none (the empty string; an
\* omitted argument behaves the same wherever it is only tested or looked
\* up), and names every object inherits from Object.prototype. A user id is
\* whatever the server's authentication response carries.
ServerIdArgs == ServerIds \cup {Absent, "constructor"}

UserIdArgs == UserIds \cup {Absent, "constructor", "__proto__"}

overlayVars ==
    <<isEnabled, cues, activeCue, settings, overlay, innerOverlay, pending, issued,
      lastTimeMs>>

serverIds(servers) == {servers[i].id : i \in 1..Len(servers)}

userIds(users) == {users[i].userId : i \in 1..Len(users)}

serverAt(servers, id) == servers[CHOOSE i \in 1..Len(servers) : servers[i].id = id]

userAt(users, id) == users[CHOOSE i \in 1..Len(users) : users[i].userId = id]

\* obj[key] as JavaScript evaluates it on a plain object with the given own
\* keys: an own property, a member inherited from Object.prototype (truthy),
\* or undefined.
memberKind(keys, key) ==
    IF key \in keys THEN "own"
    ELSE IF key \in ObjectPrototypeKeys THEN "inherited"
    ELSE "missing"

\* member.name of the member the key names on Object.prototype: a function's
\* name, which for 'constructor' is 'Object'; the prototype object that
\* '__proto__' yields has none.
memberName(key) ==
    IF key = "constructor" THEN "Object"
    ELSE IF key = "__proto__" THEN undefinedValue
    ELSE key

\* member.url: the value assigned on the member itself or, as the members
\* inherit from Object.prototype too, the one assigned on the prototype.
memberUrl(urls, key) ==
    IF urls[key] # undefinedValue THEN urls[key] ELSE urls["__proto__"]

\* getAllServers(): the stored server data, {} when there is none.
getAllServers(st) == st.servers

\* The arguments of updateServer: the server-level updates (null, or an
\* object with a new url) and the user-level ones (null, or an object with a
\* new lastConnected).
NoUpdates == [given |-> FALSE, url |-> Absent]

UrlUpdate(url) == [given |-> TRUE, url |-> url]

NoUserUpdates == [given |-> FALSE, lastConnected |-> 0]

ConnectedUpdate(t) == [given |-> TRUE, lastConnected |-> t]

\* Lines 169-189 of updateServer on the servers object it read: the object
\* as saved, whether the function goes on to save it (found) and whether it
\* raised. The user-level update is applied when server.users[userId] is
\* truthy; on an inherited member the assignment lands outside the store. On
\* a server id that only names an inherited member, server.users is
\* undefined.
updated(servers, serverId, updates, userId, userUpdates) ==
    LET kind == memberKind(serverIds(servers), serverId)
    IN IF kind = "missing" THEN [servers |-> servers, found |-> FALSE, threw |-> FALSE]
       ELSE IF kind = "inherited"
       THEN [servers |-> servers, found |-> TRUE,
             threw |-> userId # Absent /\ userUpdates.given]
       ELSE [servers |->
                [i \in 1..Len(servers) |->
                    IF servers[i].id # serverId THEN servers[i]
                    ELSE LET users == servers[i].users
                         IN [servers[i] EXCEPT
                                !.url = IF updates.given THEN updates.url ELSE @,
                                !.users =
                                    [j \in 1..Len(users) |->
                                        IF /\ users[j].userId = userId
                                           /\ userId # Absent
                                           /\ userUpdates.given
                                        THEN [users[j] EXCEPT !.lastConnected =
                                                  userUpdates.lastConnected]
                                        ELSE users[j]]]],
             found |-> TRUE, threw |-> FALSE]

\* Lines 175-181 of updateServer on a server id that names an inherited
\* member: server[key] = updates[key] assigns url on that member, where it
\* stays for every later read.
assignedUrls(urls, servers, serverId, updates) ==
    IF memberKind(serverIds(servers), serverId) = "inherited" /\ updates.given
    THEN [urls EXCEPT ![serverId] = updates.url]
    ELSE urls

\* Lines 204-208 of setActiveServer on the servers object it read: "stored"
\* when it goes on, "missing" when it returns false, "threw" when
\* server.users is undefined (the id names an inherited member) and
\* server.users[userId] raises a TypeError.
activation(servers, serverId, userId) ==
    LET kind == memberKind(serverIds(servers), serverId)
    IN IF kind = "missing" THEN "missing"
       ELSE IF kind = "inherited" THEN "threw"
       ELSE IF memberKind(userIds(serverAt(servers, serverId).users), userId) = "missing"
       THEN "missing"
       ELSE "stored"

\* The object getActiveServer and getServer build for a user of a server.
userEntry(server, serverId, userId, kind) ==
    [isNull |-> FALSE, id |-> serverId, serverId |-> serverId, url |-> server.url,
     name |-> server.name, userId |-> userId,
     accessToken |-> IF kind = "own" THEN userAt(server.users, userId).accessToken
                     ELSE undefinedValue]

\* The object getServer builds for a server as a whole: it has the users
\* object but neither userId nor accessToken.
serverEntry(url, name, serverId) ==
    [isNull |-> FALSE, id |-> serverId, serverId |-> serverId, url |-> url,
     name |-> name, userId |-> undefinedValue, accessToken |-> undefinedValue]

\* Lines 132-156 of getActiveServer on the three values it read.
activeEntry(servers, activeServerId, activeUserId) ==
    IF activeServerId = Absent \/ activeUserId = Absent THEN NullEntry
    ELSE IF memberKind(serverIds(servers), activeServerId) # "own"
    THEN \* !server, or !server.users on an inherited member
         NullEntry
    ELSE LET server == serverAt(servers, activeServerId)
             kind == memberKind(userIds(server.users), activeUserId)
         IN IF kind = "missing" THEN NullEntry
            ELSE userEntry(server, activeServerId, activeUserId, kind)

\* getActiveServer() as a caller observes it on a store no call is writing.
getActiveServer(st) == activeEntry(getAllServers(st), st.activeServer, st.activeUser)

\* Lines 357-386 of getServer on the servers object it read: the value
\* returned and whether it raised. For a server id that names an inherited
\* member and no userId the object is built from that member.
serverLookup(servers, serverId, userId, urls) ==
    LET kind == memberKind(serverIds(servers), serverId)
    IN IF kind = "missing" THEN [value |-> NullEntry, threw |-> FALSE]
       ELSE IF kind = "inherited"
       THEN IF userId # Absent
            THEN [value |-> NullEntry, threw |-> TRUE]
            ELSE [value |-> serverEntry(memberUrl(urls, serverId),
                                        memberName(serverId), serverId),
                  threw |-> FALSE]
       ELSE LET server == serverAt(servers, serverId)
                ukind == memberKind(userIds(server.users), userId)
            IN IF userId # Absent /\ ukind # "missing"
               THEN [value |-> userEntry(server, serverId, userId, ukind), threw |-> FALSE]
               ELSE [value |-> serverEntry(server.url, server.name, serverId),
                     threw |-> FALSE]

\* Lines 404-415 of getServerAuth on the object its lookup returned.
serverAuth(server) ==
    IF server.isNull THEN NoServerAuth
    ELSE [isNull |-> FALSE, serverAddress |-> server.url, userId |-> server.userId,
          accessToken |-> server.accessToken, serverId |-> server.serverId]

\* The server data after lines 301-314 of removeServer on a stored server.
afterRemoval(servers, serverId, userId) ==
    LET server == serverAt(servers, serverId)
        kind == IF userId = Absent THEN "missing"
                ELSE memberKind(userIds(server.users), userId)
        remainingUsers == IF kind = "own"
                          THEN SelectSeq(server.users, LAMBDA u : u.userId # userId)
                          ELSE server.users
    IN IF kind # "missing" /\ Len(remainingUsers) > 0
       THEN [i \in 1..Len(servers) |->
                IF servers[i].id = serverId
                THEN [servers[i] EXCEPT !.users = remainingUsers]
                ELSE servers[i]]
       ELSE SelectSeq(servers, LAMBDA s : s.id # serverId)

\* Lines 297-314 of removeServer on the servers object it read: the object
\* as saved, whether the function goes on to save it (found) and whether it
\* raised (servers[serverId].users is undefined on an inherited member).
removal(servers, serverId, userId) ==
    LET kind == memberKind(serverIds(servers), serverId)
    IN IF kind = "missing" THEN [servers |-> servers, found |-> FALSE, threw |-> FALSE]
       ELSE IF kind = "inherited"
       THEN [servers |-> servers, found |-> TRUE, threw |-> userId # Absent]
       ELSE [servers |-> afterRemoval(servers, serverId, userId), found |-> TRUE,
             threw |-> FALSE]

\* The first (server, user) pair of a servers object in for...in order, as
\* lines 322-336 of removeServer find it; Absent ids when there is none.
firstPair(servers) ==
    LET withUsers == {i \in 1..Len(servers) : Len(servers[i].users) > 0}
    IN IF withUsers = {} THEN [serverId |-> Absent, userId |-> Absent]
       ELSE LET first == servers[CHOOSE i \in withUsers : \A j \in withUsers : i <= j]
            IN [serverId |-> first.id, userId |-> first.users[1].userId]

\* Lines 233-239 of addServer: the id of the first stored server with this
\* URL, null (Absent) when there is none.
existingServerId(servers, serverUrl) ==
    LET sameUrl == {i \in 1..Len(servers) : servers[i].url = serverUrl}
    IN IF sameUrl # {}
       THEN servers[CHOOSE i \in sameUrl : \A j \in sameUrl : i <= j].id
       ELSE Absent

\* Lines 241-244 of addServer: the id of the stored server with this URL, or
\* the id generated (newId) when the URL is new.
resolveServerId(servers, serverUrl, newId) ==
    IF existingServerId(servers, serverUrl) # Absent
    THEN existingServerId(servers, serverUrl)
    ELSE newId

\* Lines 241-264 of addServer: the server data with the server entry created
\* if the URL is new and the user stored under it at instant t. Line 257
\* assigns users[userId]: for '__proto__' that sets the prototype of the users
\* object and creates no entry, so the object is saved without that user; any
\* other key, 'constructor' and '' included, becomes an entry of its own.
insertUser(servers, serverUrl, serverName, userId, username, accessToken, newId, t) ==
    LET existing == existingServerId(servers, serverUrl)
        serverId == resolveServerId(servers, serverUrl, newId)
        withServer == IF existing # Absent THEN servers
                      ELSE Append(servers, [id |-> serverId, name |-> serverName,
                                            url |-> serverUrl, users |-> <<>>])
        user == [userId |-> userId, username |-> username, accessToken |-> accessToken,
                 lastConnected |-> t]
    IN [i \in 1..Len(withServer) |->
           IF withServer[i].id # serverId THEN withServer[i]
           ELSE LET users == withServer[i].users
                IN [withServer[i] EXCEPT !.users =
                       IF userId = "__proto__" THEN users
                       ELSE IF userId \in userIds(users)
                       THEN [j \in 1..Len(users) |->
                                IF users[j].userId = userId THEN user ELSE users[j]]
                       ELSE Append(users, user)]]

\* getServerCount() on a store no call is writing: Object.keys(servers).length
getServerCount(st) == Len(getAllServers(st))

RECURSIVE userTotal(_)
userTotal(servers) ==
    IF servers = <<>> THEN 0 ELSE Len(Head(servers).users) + userTotal(Tail(servers))

\* getTotalUserCount() on a store no call is writing: the users summed over
\* the servers.
getTotalUserCount(st) == userTotal(getAllServers(st))

\* hasServers()
hasServers(st) == getTotalUserCount(st) > 0

\* Lines 33-60 of getAllServersArray on the servers object it read: one
\* (serverId, userId) entry per stored user, servers and users in insertion
\* order.
RECURSIVE getAllServersArray(_)
getAllServersArray(servers) ==
    IF servers = <<>> THEN <<>>
    ELSE [j \in 1..Len(servers[1].users) |->
             [serverId |-> servers[1].id, userId |-> servers[1].users[j].userId]]
         \o getAllServersArray(Tail(servers))

\* ------------------------------------------------------------- async calls
\* The functions of the store and of the provider are async: each suspends at
\* every await and whatever else is ready runs in between. A call in flight
\* is a stack of frames, one per function that has not returned, the
\* innermost first. A frame names its function (fn), the await it is
\* suspended at (at) and the arguments and local variables the function
\* still uses. getFromStorage hands out a copy of the persisted value, so a
\* servers object a function has read (local) is private to it until it is
\* saved.
NoFrame ==
    [fn |-> "none", at |-> "none", serverUrl |-> Absent, serverId |-> Absent,
     userId |-> Absent, updates |-> NoUpdates, userUpdates |-> NoUserUpdates,
     local |-> <<>>, seen |-> Absent, seenUser |-> Absent, adding |-> FALSE,
     list |-> <<>>, entry |-> NullEntry]

Frame(fn, label) == [NoFrame EXCEPT !.fn = fn, !.at = label]

Thrown == [NoValue EXCEPT !.threw = TRUE]

BoolValue(b) == [NoValue EXCEPT !.bool = b]

EntryValue(e) == [NoValue EXCEPT !.entry = e, !.bool = ~e.isNull]

AuthValue(a) == [NoValue EXCEPT !.auth = a, !.bool = ~a.isNull]

CountValue(n) == [NoValue EXCEPT !.count = n]

ListValue(l) == [NoValue EXCEPT !.list = l]

IdValue(id) == [NoValue EXCEPT !.serverId = id, !.bool = TRUE]

\* A running call with the state it acts on: the store, the provider's
\* session, the stack and, once the stack is empty, what the call returned.
push(cfg, frame) == [cfg EXCEPT !.stack = <<frame>> \o @]

pop(cfg) == [cfg EXCEPT !.stack = Tail(@)]

\* The innermost function moves on to its next await.
suspendAt(cfg, label) == [cfg EXCEPT !.stack[1].at = label]

\* The values the accounts of the model sign on with.
TheServerName == CHOOSE n \in ServerNames : TRUE

TheUserName == CHOOSE n \in UserNames : TRUE

TheAccessToken == CHOOSE k \in AccessTokens : TRUE

\* jellyfinApi.setServer(url); jellyfinApi.setAuth(userId, accessToken)
setServerAndAuth(se, url, userId, accessToken) ==
    [se EXCEPT !.apiServer = url, !.apiUserId = userId, !.apiToken = accessToken]

\* setUser(null); setServerUrl(null); setServerName(null);
\* setAccessToken(null); setIsAuthenticated(false)
clearContext(se) ==
    [se EXCEPT !.user = Absent, !.serverUrl = Absent, !.serverName = Absent,
               !.accessToken = Absent, !.isAuthenticated = FALSE]

authData(serverUrl, userId, token) ==
    [present |-> TRUE, serverUrl |-> serverUrl, userId |-> userId, token |-> token]

\* A function is called: its frame is pushed, suspended at its first await.
\* A function whose first await is a call of another function pushes that
\* function's frame on top of its own.
callGetActiveServer(cfg) == push(cfg, Frame("getActiveServer", "getActiveServerKey"))

callUpdateServer(cfg, serverId, updates, userId, userUpdates) ==
    push(cfg, [Frame("updateServer", "getAllServers") EXCEPT
                  !.serverId = serverId, !.updates = updates, !.userId = userId,
                  !.userUpdates = userUpdates])

callSetActiveServer(cfg, serverId, userId) ==
    push(cfg, [Frame("setActiveServer", "getAllServers") EXCEPT
                  !.serverId = serverId, !.userId = userId])

callAddServer(cfg, serverUrl, userId) ==
    push(cfg, [Frame("addServer", "getAllServers") EXCEPT
                  !.serverUrl = serverUrl, !.userId = userId])

callRemoveServer(cfg, serverId, userId) ==
    push(cfg, [Frame("removeServer", "getAllServers") EXCEPT
                  !.serverId = serverId, !.userId = userId])

callGetServer(cfg, serverId, userId) ==
    push(cfg, [Frame("getServer", "getAllServers") EXCEPT
                  !.serverId = serverId, !.userId = userId])

callGetServerAuth(cfg, serverId, userId) ==
    IF serverId # Absent /\ userId # Absent
    THEN callGetServer(push(cfg, Frame("getServerAuth", "getServer")), serverId, userId)
    ELSE callGetActiveServer(push(cfg, Frame("getServerAuth", "getActiveServer")))

callGetTotalUserCount(cfg) == push(cfg, Frame("getTotalUserCount", "getAllServers"))

callGetAllServersArray(cfg) == push(cfg, Frame("getAllServersArray", "getAllServers"))

\* loadServers awaits getAllServersArray, getUniqueServers and
\* getActiveServer together; the first two only read the server data and
\* their results go to context values the session does not keep.
callLoadServers(cfg) ==
    callGetActiveServer(push(cfg, Frame("loadServers", "getActiveServer")))

callSwitchUser(cfg, serverId, userId) ==
    callSetActiveServer(push(cfg, Frame("switchUser", "setActiveServer")),
                        serverId, userId)

\* login(server, username, password, {serverName, isAddingNewServer}):
\* jellyfinApi.setServer(server) runs before the authentication request is
\* awaited.
callLogin(cfg, server, userId, isAddingNewServer) ==
    push([cfg EXCEPT !.session.apiServer = server],
         [Frame("login", "authenticateByName") EXCEPT
             !.serverUrl = server, !.userId = userId, !.adding = isAddingNewServer])

callLoginWithToken(cfg, server, userId, isAddingNewServer) ==
    callAddServer(
        push([cfg EXCEPT !.session =
                 setServerAndAuth(@, server, userId, TheAccessToken)],
             [Frame("loginWithToken", "addServer") EXCEPT
                 !.serverUrl = server, !.userId = userId,
                 !.adding = isAddingNewServer]),
        server, userId)

callRemoveUser(cfg, serverId, userId) ==
    callRemoveServer(push(cfg, Frame("removeUser", "removeServer")), serverId, userId)

\* logout() works on the activeServerInfo of the render it was created in.
callLogout(cfg) ==
    IF cfg.session.activeServerInfo.present
    THEN callRemoveServer(push(cfg, Frame("logout", "removeServer")),
                          cfg.session.activeServerInfo.serverId,
                          cfg.session.activeServerInfo.userId)
    ELSE callGetTotalUserCount(push(cfg, Frame("logout", "getTotalUserCount")))

callLogoutAll(cfg) ==
    callGetAllServersArray(push(cfg, Frame("logoutAll", "getAllServersArray")))

\* The loop of logoutAll (lines 312-324): removeServer for the next entry of
\* the array read at the start, then the 'auth' key is removed.
nextRemoval(cfg, list) ==
    IF list = <<>> THEN suspendAt(cfg, "removeAuth")
    ELSE callRemoveServer([cfg EXCEPT !.stack[1].at = "removeServer",
                                      !.stack[1].list = Tail(list)],
                          list[1].serverId, list[1].userId)

\* The functions that catch what an awaited call throws.
Catching == {"loadServers", "switchUser", "removeUser"}

\* The innermost function has returned value (or thrown): its caller, now the
\* innermost frame, runs on from the call to its next await, or returns in
\* turn. With an empty stack the call as a whole is over.
RECURSIVE return(_, _)
return(cfg, value) ==
    IF cfg.stack = <<>> THEN [cfg EXCEPT !.result = value]
    ELSE LET f == cfg.stack[1]
         IN IF value.threw /\ f.fn \notin Catching THEN return(pop(cfg), value)
            ELSE CASE f.fn = "setActiveServer" ->
                         \* lines 213-218
                         return(pop(cfg), BoolValue(TRUE))
                   [] f.fn = "addServer" ->
                         \* lines 272-285
                         return(pop(cfg), IdValue(f.serverId))
                   [] f.fn = "removeServer" ->
                         \* lines 339-346
                         return(pop(cfg), BoolValue(TRUE))
                   [] f.fn = "getServerAuth" ->
                         \* lines 399-415
                         return(pop(cfg), AuthValue(serverAuth(value.entry)))
                   [] f.fn = "loadServers" ->
                         \* lines 24-37
                         IF value.threw THEN return(pop(cfg), NoValue)
                         ELSE return(
                                  pop([cfg EXCEPT !.session.activeServerInfo =
                                          IF value.entry.isNull THEN NoActiveInfo
                                          ELSE [present |-> TRUE,
                                                serverId |-> value.entry.serverId,
                                                userId |-> value.entry.userId]]),
                                  NoValue)
                   [] f.fn \in {"login", "loginWithToken"} /\ f.at = "addServer" ->
                         \* lines 103-115, 164-176
                         IF ~f.adding
                         THEN callSetActiveServer(suspendAt(cfg, "setActiveServer"),
                                                  value.serverId, f.userId)
                         ELSE callGetActiveServer(suspendAt(cfg, "getActiveServer"))
                   [] f.fn \in {"login", "loginWithToken"} /\ f.at = "setActiveServer" ->
                         \* lines 112-121, 173-182
                         callLoadServers(suspendAt(cfg, "loadServers"))
                   [] f.fn \in {"login", "loginWithToken"} /\ f.at = "getActiveServer" ->
                         \* lines 114-121, 175-182
                         callLoadServers(
                             suspendAt(
                                 IF value.entry.isNull THEN cfg
                                 ELSE [cfg EXCEPT !.session =
                                          setServerAndAuth(@, value.entry.url,
                                                           value.entry.userId,
                                                           value.entry.accessToken)],
                                 "loadServers"))
                   [] f.fn \in {"login", "loginWithToken"} /\ f.at = "loadServers" ->
                         \* lines 121-130, 182-191
                         suspendAt(cfg, "saveAuth")
                   [] f.fn = "switchUser" /\ f.at = "setActiveServer" ->
                         \* lines 206-209, 237-240
                         IF value.threw \/ ~value.bool
                         THEN return(pop(cfg), BoolValue(FALSE))
                         ELSE callGetActiveServer(suspendAt(cfg, "getActiveServer"))
                   [] f.fn = "switchUser" /\ f.at = "getActiveServer" ->
                         \* lines 209-220
                         IF value.threw \/ value.entry.isNull
                         THEN return(pop(cfg), BoolValue(FALSE))
                         ELSE [cfg EXCEPT
                                  !.session =
                                      [setServerAndAuth(@, value.entry.url,
                                                        value.entry.userId,
                                                        value.entry.accessToken)
                                          EXCEPT !.serverUrl = value.entry.url,
                                                 !.serverName = value.entry.name,
                                                 !.accessToken = value.entry.accessToken],
                                  !.stack[1].entry = value.entry,
                                  !.stack[1].at = "getUserConfiguration"]
                   [] f.fn = "switchUser" /\ f.at = "loadServers" ->
                         \* lines 233-236
                         return(pop([cfg EXCEPT !.session.isAuthenticated = TRUE]),
                                BoolValue(TRUE))
                   [] f.fn = "removeUser" /\ f.at = "removeServer" ->
                         \* lines 245-247, 264-267
                         IF value.threw THEN return(pop(cfg), BoolValue(FALSE))
                         ELSE callGetTotalUserCount(suspendAt(cfg, "getTotalUserCount"))
                   [] f.fn = "removeUser" /\ f.at = "getTotalUserCount" ->
                         \* lines 247-256
                         IF value.threw THEN return(pop(cfg), BoolValue(FALSE))
                         ELSE IF value.count = 0 THEN suspendAt(cfg, "removeAuth")
                         ELSE callGetActiveServer(suspendAt(cfg, "getActiveServer"))
                   [] f.fn = "removeUser" /\ f.at = "getActiveServer" ->
                         \* lines 256-262
                         IF value.threw THEN return(pop(cfg), BoolValue(FALSE))
                         ELSE IF ~value.entry.isNull
                         THEN callSwitchUser(suspendAt(cfg, "switchUser"),
                                             value.entry.serverId, value.entry.userId)
                         ELSE callLoadServers(suspendAt(cfg, "loadServers"))
                   [] f.fn = "removeUser" /\ f.at = "switchUser" ->
                         \* lines 258-262
                         callLoadServers(suspendAt(cfg, "loadServers"))
                   [] f.fn = "removeUser" /\ f.at = "loadServers" ->
                         \* lines 262-263
                         return(pop(cfg), BoolValue(TRUE))
                   [] f.fn = "logout" /\ f.at = "removeServer" ->
                         \* lines 287-290
                         callGetTotalUserCount(suspendAt(cfg, "getTotalUserCount"))
                   [] f.fn = "logout" /\ f.at = "getTotalUserCount" ->
                         \* lines 290-299
                         IF value.count > 0
                         THEN callGetActiveServer(suspendAt(cfg, "getActiveServer"))
                         ELSE suspendAt(cfg, "removeAuth")
                   [] f.fn = "logout" /\ f.at = "getActiveServer" ->
                         \* lines 292-299
                         IF ~value.entry.isNull
                         THEN callSwitchUser(suspendAt(cfg, "switchUser"),
                                             value.entry.serverId, value.entry.userId)
                         ELSE suspendAt(cfg, "removeAuth")
                   [] f.fn = "logout" /\ f.at = "switchUser" ->
                         \* lines 294-295
                         return(pop(cfg), NoValue)
                   [] f.fn = "logoutAll" /\ f.at = "getAllServersArray" ->
                         \* lines 311-316
                         nextRemoval(cfg, value.list)
                   [] f.fn = "logoutAll" /\ f.at = "removeServer" ->
                         \* lines 312-316
                         nextRemoval(cfg, f.list)


\* The await the innermost function is suspended at completes: the storage
\* operation takes effect and the function runs on to its next await, calls
\* another function or returns. newId is the id addServer generates if the
\* URL is new, t the instant new Date() yields, ok whether a request to the
\* server succeeds.
step(cfg, newId, t, ok) ==
    LET f == cfg.stack[1]
        st == cfg.storage
    IN CASE f.fn = "getActiveServer" /\ f.at = "getActiveServerKey" ->
               \* line 129
               [cfg EXCEPT !.stack[1].seen = st.activeServer,
                           !.stack[1].at = "getActiveUserKey"]
         [] f.fn = "getActiveServer" /\ f.at = "getActiveUserKey" ->
               \* lines 130-136
               IF f.seen = Absent \/ st.activeUser = Absent
               THEN return(pop(cfg), EntryValue(NullEntry))
               ELSE [cfg EXCEPT !.stack[1].seenUser = st.activeUser,
                                !.stack[1].at = "getAllServers"]
         [] f.fn = "getActiveServer" /\ f.at = "getAllServers" ->
               \* lines 136-156
               return(pop(cfg),
                      EntryValue(activeEntry(getAllServers(st), f.seen, f.seenUser)))
         [] f.fn = "updateServer" /\ f.at = "getAllServers" ->
               \* lines 168-191
               LET r == updated(getAllServers(st), f.serverId, f.updates, f.userId,
                                f.userUpdates)
                   c == [cfg EXCEPT !.memberUrls =
                            assignedUrls(@, getAllServers(st), f.serverId, f.updates)]
               IN IF ~r.found THEN return(pop(c), BoolValue(FALSE))
                  ELSE IF r.threw THEN return(pop(c), Thrown)
                  ELSE [c EXCEPT !.stack[1].local = r.servers,
                                 !.stack[1].at = "saveServers"]
         [] f.fn = "updateServer" /\ f.at = "saveServers" ->
               \* lines 191-193
               return(pop([cfg EXCEPT !.storage.servers = f.local]), BoolValue(TRUE))
         [] f.fn = "setActiveServer" /\ f.at = "getAllServers" ->
               \* lines 203-210
               LET found == activation(getAllServers(st), f.serverId, f.userId)
               IN IF found = "missing" THEN return(pop(cfg), BoolValue(FALSE))
                  ELSE IF found = "threw" THEN return(pop(cfg), Thrown)
                  ELSE suspendAt(cfg, "saveServerKey")
         [] f.fn = "setActiveServer" /\ f.at = "saveServerKey" ->
               \* lines 210-211
               [cfg EXCEPT !.storage.activeServer = f.serverId,
                           !.stack[1].at = "saveUserKey"]
         [] f.fn = "setActiveServer" /\ f.at = "saveUserKey" ->
               \* lines 211-215
               callUpdateServer([cfg EXCEPT !.storage.activeUser = f.userId,
                                            !.stack[1].at = "updateServer"],
                                f.serverId, NoUpdates, f.userId, ConnectedUpdate(t))
         [] f.fn = "addServer" /\ f.at = "getAllServers" ->
               \* lines 231-266
               [cfg EXCEPT
                   !.stack[1].local =
                       insertUser(getAllServers(st), f.serverUrl, TheServerName,
                                  f.userId, TheUserName, TheAccessToken, newId, t),
                   !.stack[1].serverId =
                       resolveServerId(getAllServers(st), f.serverUrl, newId),
                   !.stack[1].at = "saveServers"]
         [] f.fn = "addServer" /\ f.at = "saveServers" ->
               \* lines 266-268
               [cfg EXCEPT !.storage.servers = f.local,
                           !.stack[1].local = <<>>,
                           !.stack[1].at = "getActiveServerKey"]
         [] f.fn = "addServer" /\ f.at = "getActiveServerKey" ->
               \* lines 268-269
               [cfg EXCEPT !.stack[1].seen = st.activeServer,
                           !.stack[1].at = "getActiveUserKey"]
         [] f.fn = "addServer" /\ f.at = "getActiveUserKey" ->
               \* lines 269-285
               IF f.seen = Absent \/ st.activeUser = Absent
               THEN callSetActiveServer(suspendAt(cfg, "setActiveServer"),
                                        f.serverId, f.userId)
               ELSE return(pop(cfg), IdValue(f.serverId))
         [] f.fn = "removeServer" /\ f.at = "getAllServers" ->
               \* lines 295-316
               LET r == removal(getAllServers(st), f.serverId, f.userId)
               IN IF ~r.found THEN return(pop(cfg), BoolValue(FALSE))
                  ELSE IF r.threw THEN return(pop(cfg), Thrown)
                  ELSE [cfg EXCEPT !.stack[1].local = r.servers,
                                   !.stack[1].at = "saveServers"]
         [] f.fn = "removeServer" /\ f.at = "saveServers" ->
               \* lines 316-318
               [cfg EXCEPT !.storage.servers = f.local,
                           !.stack[1].at = "getActiveServerKey"]
         [] f.fn = "removeServer" /\ f.at = "getActiveServerKey" ->
               \* lines 318-319
               [cfg EXCEPT !.stack[1].seen = st.activeServer,
                           !.stack[1].at = "getActiveUserKey"]
         [] f.fn = "removeServer" /\ f.at = "getActiveUserKey" ->
               \* lines 319-346
               IF f.seen = f.serverId /\ (f.userId = Absent \/ st.activeUser = f.userId)
               THEN IF /\ firstPair(f.local).serverId # Absent
                       /\ firstPair(f.local).userId # Absent
                    THEN callSetActiveServer(
                             [cfg EXCEPT !.stack[1].local = <<>>,
                                         !.stack[1].at = "setActiveServer"],
                             firstPair(f.local).serverId, firstPair(f.local).userId)
                    ELSE [cfg EXCEPT !.stack[1].local = <<>>,
                                     !.stack[1].at = "removeServerKey"]
               ELSE return(pop(cfg), BoolValue(TRUE))
         [] f.fn = "removeServer" /\ f.at = "removeServerKey" ->
               \* lines 341-342
               [cfg EXCEPT !.storage.activeServer = Absent,
                           !.stack[1].at = "removeUserKey"]
         [] f.fn = "removeServer" /\ f.at = "removeUserKey" ->
               \* lines 342-346
               return(pop([cfg EXCEPT !.storage.activeUser = Absent]), BoolValue(TRUE))
         [] f.fn = "getServer" /\ f.at = "getAllServers" ->
               \* lines 356-386
               LET r == serverLookup(getAllServers(st), f.serverId, f.userId,
                                     cfg.memberUrls)
               IN IF r.threw THEN return(pop(cfg), Thrown)
                  ELSE return(pop(cfg), EntryValue(r.value))
         [] f.fn = "getTotalUserCount" /\ f.at = "getAllServers" ->
               \* lines 442-451
               return(pop(cfg), CountValue(userTotal(getAllServers(st))))
         [] f.fn = "getAllServersArray" /\ f.at = "getAllServers" ->
               \* lines 32-60
               return(pop(cfg), ListValue(getAllServersArray(getAllServers(st))))
         [] f.fn = "login" /\ f.at = "authenticateByName" ->
               \* lines 84-109
               IF ~ok THEN return(pop(cfg), Thrown)
               ELSE callAddServer(
                        [cfg EXCEPT !.session.apiUserId = f.userId,
                                    !.session.apiToken = TheAccessToken,
                                    !.stack[1].at = "addServer"],
                        f.serverUrl, f.userId)
         [] f.fn \in {"login", "loginWithToken"} /\ f.at = "saveAuth" ->
               \* lines 130-140, 191-201
               return(pop([cfg EXCEPT
                              !.storage.auth =
                                  authData(f.serverUrl, f.userId, TheAccessToken),
                              !.session =
                                  IF f.adding THEN @
                                  ELSE [@ EXCEPT !.serverUrl = f.serverUrl,
                                                 !.serverName = TheServerName,
                                                 !.accessToken = TheAccessToken,
                                                 !.user = f.userId,
                                                 !.isAuthenticated = TRUE]]),
                      BoolValue(TRUE))
         [] f.fn = "switchUser" /\ f.at = "getUserConfiguration" ->
               \* lines 219-231: setUser gets the configuration the server
               \* sent, or {Id: active.userId, ...} when the request failed
               [cfg EXCEPT !.session.user = f.entry.userId,
                           !.stack[1].at = "saveAuth"]
         [] f.fn = "switchUser" /\ f.at = "saveAuth" ->
               \* lines 226-233
               callLoadServers(
                   [cfg EXCEPT !.storage.auth =
                                   authData(f.entry.url, f.entry.userId,
                                            f.entry.accessToken),
                               !.stack[1].at = "loadServers"])
         [] f.fn = "removeUser" /\ f.at = "removeAuth" ->
               \* lines 249-262
               callLoadServers([cfg EXCEPT !.storage.auth = NoAuthData,
                                           !.session = clearContext(@),
                                           !.stack[1].at = "loadServers"])
         [] f.fn \in {"logout", "logoutAll"} /\ f.at = "removeAuth" ->
               \* lines 299-307, 316-324
               return(pop([cfg EXCEPT
                              !.storage.auth = NoAuthData,
                              !.session = [clearContext(@) EXCEPT
                                              !.activeServerInfo = NoActiveInfo]]),
                      NoValue)

\* A caller calls a function of the store or of the provider: the call takes
\* the slot c, runs to its first await and is suspended there. before keeps
\* what the caller could observe of the store and the session at the call.
inFlight(c) == calls[c].pc = "running"

\* The running call a new call starts from: nothing on the stack yet.
Base ==
    [storage |-> storage, session |-> session, memberUrls |-> memberUrls,
     stack |-> <<>>, result |-> NoValue]

\* What a caller can observe of the store and the session when it calls.
Observed == [storage |-> storage, session |-> session]

\* The slot the calls made one at a time run in: the first one.
Caller == CHOOSE c \in CallIds : \A d \in CallIds : c <= d

\* No call is in flight: a caller that awaits each call before making the
\* next one calls now.
quiet == \A c \in CallIds : ~inFlight(c)

\* The caller that makes one call at a time makes at most MaxCalls calls of
\* the store, the user interface at most MaxProviderCalls of the provider.
mayCall == quiet /\ calls[Caller].made < MaxCalls

mayOperate == quiet /\ calls[Caller].made < MaxProviderCalls

\* The call op(serverUrl, serverId, userId, isAddingNewServer) takes slot c;
\* cfg is the call suspended at its first await.
Start(c, op, serverUrl, serverId, userId, isAddingNewServer, cfg, before) ==
    /\ calls' = [calls EXCEPT ![c] =
                    [op |-> op, pc |-> "running", stack |-> cfg.stack,
                     result |-> NoValue, serverUrl |-> serverUrl, serverId |-> serverId,
                     userId |-> userId, adding |-> isAddingNewServer,
                     before |-> before, made |-> calls[c].made + 1]]
    /\ storage' = cfg.storage
    /\ session' = cfg.session
    /\ UNCHANGED <<overlayVars, lastOp, memberUrls>>

\* The ids the store, the session or a call in flight refers to: an id
\* addServer generates (line 244) differs from all of them.
frameIds(f) ==
    {f.serverId, f.seen, f.entry.serverId}
        \cup serverIds(f.local)
        \cup {f.list[i].serverId : i \in 1..Len(f.list)}

idsInUse ==
    serverIds(storage.servers)
        \cup {storage.activeServer, session.activeServerInfo.serverId}
        \cup UNION {UNION {frameIds(calls[c].stack[i]) : i \in 1..Len(calls[c].stack)} :
                        c \in CallIds}

\* The id line 244 of addServer produces: an id nothing refers to. Which of
\* the unused ids stands for it makes no difference to any later call, so the
\* first one in IdOrder is taken.
generatedIds ==
    LET unused == {i \in 1..Len(IdOrder) : IdOrder[i] \notin idsInUse}
    IN IF unused = {} THEN {}
       ELSE {IdOrder[CHOOSE i \in unused : \A j \in unused : i <= j]}

\* Whether addServer(serverUrl, ...) called now can get an id if it needs one.
canAdd(serverUrl) ==
    existingServerId(storage.servers, serverUrl) # Absent \/ generatedIds # {}

\* What the completion of the pending await of call c draws from outside the
\* program: the generated id where line 244 is reached, the instant where new
\* Date() is evaluated, the outcome of a request to the server.
idChoices(f) ==
    IF /\ f.fn = "addServer" /\ f.at = "getAllServers"
       /\ existingServerId(storage.servers, f.serverUrl) = Absent
    THEN generatedIds
    ELSE {Absent}

instantChoices(f, instants) ==
    IF \/ f.fn = "addServer" /\ f.at = "getAllServers"
       \/ f.fn = "setActiveServer" /\ f.at = "saveUserKey"
    THEN instants
    ELSE {CHOOSE t \in instants : \A u \in instants : t <= u}

requestOutcomes(f) ==
    IF f.fn = "login" /\ f.at = "authenticateByName" THEN BOOLEAN ELSE {TRUE}

\* The await call c is suspended at completes and the call runs on to its
\* next await or to its end.
Resume(c, instants) ==
    /\ inFlight(c)
    /\ \E newId \in idChoices(calls[c].stack[1]),
          t \in instantChoices(calls[c].stack[1], instants),
          ok \in requestOutcomes(calls[c].stack[1]) :
           \E r \in {step([Base EXCEPT !.stack = calls[c].stack], newId, t, ok)} :
               /\ storage' = r.storage
               /\ session' = r.session
               /\ memberUrls' = r.memberUrls
               /\ calls' = [calls EXCEPT ![c] =
                               [@ EXCEPT !.stack = r.stack,
                                         !.result = r.result,
                                         !.pc = IF r.stack = <<>> THEN "done"
                                                ELSE "running"]]
    /\ UNCHANGED <<overlayVars, lastOp>>

StoreFunctions ==
    {"addServer", "removeServer", "setActiveServer", "updateServer", "getServer",
     "getServerAuth"}

ProviderFunctions ==
    {"login", "loginWithToken", "switchUser", "removeUser", "logout", "logoutAll"}

\* A call of the store made by a caller that makes one call at a time.
AddServer ==
    \E serverUrl \in Urls, userId \in UserIdArgs :
        /\ mayCall
        /\ canAdd(serverUrl)
        /\ Start(Caller, "addServer", serverUrl, Absent, userId, FALSE,
                 callAddServer(Base, serverUrl, userId), Observed)

RemoveServer ==
    \E serverId \in ServerIdArgs, userId \in UserIdArgs :
        /\ mayCall
        /\ Start(Caller, "removeServer", Absent, serverId, userId, FALSE,
                 callRemoveServer(Base, serverId, userId), Observed)

SetActiveServer ==
    \E serverId \in ServerIdArgs, userId \in UserIdArgs :
        /\ mayCall
        /\ Start(Caller, "setActiveServer", Absent, serverId, userId, FALSE,
                 callSetActiveServer(Base, serverId, userId), Observed)

UpdateServer ==
    \E serverId \in ServerIdArgs, userId \in UserIdArgs,
       updates \in {NoUpdates} \cup {UrlUpdate(u) : u \in Urls},
       userUpdates \in {NoUserUpdates} \cup {ConnectedUpdate(t) : t \in Instants} :
        /\ mayCall
        /\ Start(Caller, "updateServer", Absent, serverId, userId, FALSE,
                 callUpdateServer(Base, serverId, updates, userId, userUpdates),
                 Observed)

GetServer ==
    \E serverId \in ServerIdArgs, userId \in UserIdArgs :
        /\ mayCall
        /\ Start(Caller, "getServer", Absent, serverId, userId, FALSE,
                 callGetServer(Base, serverId, userId), Observed)

GetServerAuth ==
    \E serverId \in ServerIdArgs, userId \in UserIdArgs :
        /\ mayCall
        /\ Start(Caller, "getServerAuth", Absent, serverId, userId, FALSE,
                 callGetServerAuth(Base, serverId, userId), Observed)

\* The pending await of a call of the store completes.
ResumeCall ==
    \E c \in CallIds :
        /\ calls[c].op \in StoreFunctions
        /\ Resume(c, Instants)

\* The credential store on its own: servers and users are added, removed,
\* activated and looked up, one call at a time.
ServerNext ==
    \/ AddServer
    \/ RemoveServer
    \/ SetActiveServer
    \/ GetServerAuth
    \/ ResumeCall

ServerSpec == Init /\ [][ServerNext]_vars

\* The store under addServer, removeServer and setActiveServer calls made one
\* at a time.
StoreNext ==
    \/ AddServer
    \/ RemoveServer
    \/ SetActiveServer
    \/ ResumeCall

StoreSpec == Init /\ [][StoreNext]_vars

\* The store under all four mutators, updateServer included.
StoreUpdateNext ==
    \/ AddServer
    \/ RemoveServer
    \/ SetActiveServer
    \/ UpdateServer
    \/ GetServer
    \/ ResumeCall

StoreUpdateSpec == Init /\ [][StoreUpdateNext]_vars

\* ------------------------------------------------- interleaved store calls
\* Up to MaxSeeds addServer calls made one at a time fill the empty store;
\* then two more calls are made without awaiting the first of them, and
\* their awaits complete in any order. The calls are those of users u1 and
\* u2 signing on, being switched to and being removed.
Racers == CallIds \ {Caller}

SeedAddServer ==
    \E serverUrl \in Urls, userId \in UserIds :
        /\ \A c \in Racers : calls[c].pc = "idle"
        /\ calls[Caller].made < MaxSeeds
        /\ quiet
        /\ canAdd(serverUrl)
        /\ Start(Caller, "addServer", serverUrl, Absent, userId, FALSE,
                 callAddServer(Base, serverUrl, userId), Observed)

seeded == calls[Caller].pc = "done"

StartAddServer ==
    \E c \in Racers, serverUrl \in Urls, userId \in UserIds :
        /\ seeded
        /\ calls[c].pc = "idle"
        /\ Start(c, "addServer", serverUrl, Absent, userId, FALSE,
                 callAddServer(Base, serverUrl, userId), NotObserved)

\* A caller starts removeServer(serverId, userId) for a user it finds stored.
StartRemoveServer ==
    \E c \in Racers, serverId \in ServerIds, userId \in UserIds :
        /\ seeded
        /\ calls[c].pc = "idle"
        /\ activation(storage.servers, serverId, userId) = "stored"
        /\ Start(c, "removeServer", Absent, serverId, userId, FALSE,
                 callRemoveServer(Base, serverId, userId), NotObserved)

\* A caller starts setActiveServer(serverId, userId) for a user it finds
\* stored.
StartSetActiveServer ==
    \E c \in Racers, serverId \in ServerIds, userId \in UserIds :
        /\ seeded
        /\ calls[c].pc = "idle"
        /\ activation(storage.servers, serverId, userId) = "stored"
        /\ Start(c, "setActiveServer", Absent, serverId, userId, FALSE,
                 callSetActiveServer(Base, serverId, userId), NotObserved)

\* A caller starts updateServer(serverId, null, userId, {lastConnected}) for a
\* user it finds stored.
StartUpdateServer ==
    \E c \in Racers, serverId \in ServerIds, userId \in UserIds, t \in Instants :
        /\ seeded
        /\ calls[c].pc = "idle"
        /\ activation(storage.servers, serverId, userId) = "stored"
        /\ Start(c, "updateServer", Absent, serverId, userId, FALSE,
                 callUpdateServer(Base, serverId, NoUpdates, userId, ConnectedUpdate(t)),
                 NotObserved)

RaceNext ==
    \/ SeedAddServer
    \/ StartAddServer
    \/ StartRemoveServer
    \/ StartSetActiveServer
    \/ StartUpdateServer
    \/ ResumeCall

RaceSpec == Init /\ [][RaceNext]_vars

\* ------------------------------------------------------------ AuthProvider
\* The provider's state is `session`: the context values isAuthenticated,
\* user (its Id), serverUrl, serverName, accessToken and activeServerInfo,
\* and the API client's configured server address and credentials
\* (apiServer, apiUserId, apiToken), which jellyfinApi.setServer and
\* jellyfinApi.setAuth assign. The 'auth' key of the storage is storage.auth.
\* The user interface calls one operation of the provider at a time.

\* The instants the provider's operations are taken at.
AuthInstants == {1}

Login ==
    \E server \in Urls, userId \in UserIds, isAddingNewServer \in BOOLEAN :
        /\ mayOperate
        /\ canAdd(server)
        /\ Start(Caller, "login", server, Absent, userId, isAddingNewServer,
                 callLogin(Base, server, userId, isAddingNewServer), Observed)

LoginWithToken ==
    \E server \in Urls, userId \in UserIds, isAddingNewServer \in BOOLEAN :
        /\ mayOperate
        /\ canAdd(server)
        /\ Start(Caller, "loginWithToken", server, Absent, userId, isAddingNewServer,
                 callLoginWithToken(Base, server, userId, isAddingNewServer), Observed)

SwitchUser ==
    \E serverId \in ServerIds, userId \in UserIds :
        /\ mayOperate
        /\ Start(Caller, "switchUser", Absent, serverId, userId, FALSE,
                 callSwitchUser(Base, serverId, userId), Observed)

RemoveUser ==
    \E serverId \in ServerIds, userId \in UserIds :
        /\ mayOperate
        /\ Start(Caller, "removeUser", Absent, serverId, userId, FALSE,
                 callRemoveUser(Base, serverId, userId), Observed)

Logout ==
    /\ mayOperate
    /\ Start(Caller, "logout", Absent, Absent, Absent, FALSE, callLogout(Base), Observed)

LogoutAll ==
    /\ mayOperate
    /\ Start(Caller, "logoutAll", Absent, Absent, Absent, FALSE, callLogoutAll(Base),
             Observed)

\* The pending await of an operation of the provider completes.
ResumeProviderCall ==
    \E c \in CallIds :
        /\ calls[c].op \in ProviderFunctions
        /\ Resume(c, AuthInstants)

AuthNext ==
    \/ Login
    \/ LoginWithToken
    \/ SwitchUser
    \/ RemoveUser
    \/ Logout
    \/ LogoutAll
    \/ ResumeProviderCall

AuthSpec == Init /\ [][AuthNext]_vars

\* ------------------------------------------------------------------ claims
\* Indices of the cues whose closed interval [start, end] contains timeMs.
Hits(cs, timeMs) ==
    {i \in 1..Len(cs) : numLeqInt(cs[i].start, timeMs) /\ intLeqNum(timeMs, cs[i].end)}

\* C1: in every reachable state activeCue is none, or an element of the
\* current cue list whose interval contains the time of the most recent
\* update call.
C1_ActiveCueIsCurrentMember ==
    \/ activeCue = NoCue
    \/ \E i \in Hits(cues, lastTimeMs) : cues[i] = activeCue

\* C2: whenever isEnabled is false, activeCue is none.
C2_DisabledHasNoActiveCue == ~isEnabled => activeCue = NoCue

\* C3: an update whose matched cue is the object already stored as activeCue
\* changes neither activeCue nor the inner surface and assigns innerHTML zero
\* times; and of two consecutive update calls with the same time the second
\* changes nothing, the two together rendering at most once.
C3_UpdateSkipsUnchangedCue ==
    [][lastOp'.op = "update" =>
          /\ (/\ isEnabled
              /\ cues # <<>>
              /\ \E i \in Hits(cues, lastTimeMs') :
                    /\ \A j \in Hits(cues, lastTimeMs') : i <= j
                    /\ cues[i] = activeCue)
             => (/\ activeCue' = activeCue
                 /\ innerOverlay' = innerOverlay
                 /\ lastOp'.writes = 0)
          /\ (lastOp.op = "update" /\ lastTimeMs' = lastTimeMs)
             => (/\ activeCue' = activeCue
                 /\ innerOverlay' = innerOverlay
                 /\ lastOp'.writes = 0
                 /\ lastOp.writes + lastOp'.writes <= 1)]_vars

\* C3 witness: an update that found the active cue again and rendered nothing.
C3_Witness ==
    /\ lastOp.op = "update"
    /\ lastOp.writes = 0
    /\ isEnabled
    /\ activeCue # NoCue
    /\ innerOverlay.innerHTML = htmlText(activeCue.text)
    /\ \E i \in Hits(cues, lastTimeMs) : cues[i] = activeCue

\* C4: after update(timeMs) on an enabled overlay, if any cue's closed
\* interval contains timeMs then activeCue is the one of lowest index among
\* them, whatever the order and overlap of the cues.
C4_FirstMatchWins ==
    (lastOp.op = "update" /\ isEnabled /\ Hits(cues, lastTimeMs) # {})
        => \E i \in Hits(cues, lastTimeMs) :
              /\ \A j \in Hits(cues, lastTimeMs) : i <= j
              /\ activeCue = cues[i]

\* C4 witness: two overlapping cues, listed out of time order, both contain
\* the update time, which is the end bound of the first; the first is active.
C4_Witness ==
    /\ lastOp.op = "update"
    /\ isEnabled
    /\ Hits(cues, lastTimeMs) = {1, 2}
    /\ cues[2].start.whole < cues[1].start.whole
    /\ cues[2].end = Num(lastTimeMs)
    /\ activeCue = cues[1]

\* C5 as claimed: after update(timeMs) on an enabled overlay whose cues all
\* miss timeMs, activeCue is none and the inner surface is empty and hidden.
C5_GapLeavesHidden ==
    (/\ lastOp.op = "update"
     /\ isEnabled
     /\ cues # <<>>
     /\ innerOverlay.exists
     /\ Hits(cues, lastTimeMs) = {})
        => (/\ activeCue = NoCue
            /\ innerOverlay.innerHTML = <<>>
            /\ innerOverlay.hide)

\* C5 amended: such an update ends with activeCue none and, while the
\* surface exists, with an empty inner text; the hide flag is set when a cue
\* was active before the call, and when none was the inner surface is left
\* exactly as it was.
C5_GapClearsActiveCue ==
    [][(/\ lastOp'.op = "update"
        /\ isEnabled
        /\ cues # <<>>
        /\ Hits(cues, lastTimeMs') = {})
          => (/\ activeCue' = NoCue
              /\ innerOverlay.exists =>
                    /\ innerOverlay'.innerHTML = <<>>
                    /\ IF activeCue # NoCue THEN innerOverlay'.hide
                       ELSE innerOverlay' = innerOverlay)]_vars

\* C5 witness: an update in the gap between two cues has just cleared a cue.
C5_Witness ==
    /\ lastOp.op = "update"
    /\ lastOp.writes = 1
    /\ isEnabled
    /\ Len(cues) = 2
    /\ cues[1].end.whole < lastTimeMs
    /\ lastTimeMs < cues[2].start.whole
    /\ activeCue = NoCue
    /\ innerOverlay.innerHTML = <<>>
    /\ innerOverlay.hide

\* C6: update on a disabled overlay, or on one with an empty cue list,
\* changes nothing, assigns innerHTML zero times and does not raise; after
\* disable() the surface therefore stays hidden.
C6_UpdateNoOpWhenOff ==
    [][(lastOp'.op = "update" /\ (~isEnabled \/ cues = <<>>))
          => (/\ UNCHANGED <<isEnabled, cues, activeCue, settings, overlay, innerOverlay,
                             pending>>
              /\ lastOp'.writes = 0
              /\ ~lastOp'.threw
              /\ (lastOp.op = "disable" /\ overlay.exists) => overlay'.display = "none")]_vars

\* C6 witness: update ran on a disabled overlay that holds a cue containing
\* the update time (installed by a response delivered after disable()).
C6_Witness ==
    /\ lastOp.op = "update"
    /\ ~isEnabled
    /\ Hits(cues, lastTimeMs) # {}
    /\ activeCue = NoCue
    /\ innerOverlay.exists
    /\ innerOverlay.innerHTML = <<>>

\* C7: right after the success response of the latest load is applied to a
\* live, enabled overlay, the cue list is exactly the cues extracted from
\* that payload by the format of its load, activeCue is none, the surface is
\* shown, and no text is rendered other than that of a cue of the installed
\* list.
C7_InstallResetsOverlay ==
    (lastOp.op = "deliver" /\ lastOp.token = issued /\ isEnabled /\ overlay.exists)
        => (/\ cues = cueObjects(extractCues(Payloads[lastOp.data], lastOp.format),
                                 lastOp.token)
            /\ activeCue = NoCue
            /\ overlay.exists
            /\ overlay.display = "flex"
            /\ \/ innerOverlay.innerHTML = <<>>
               \/ \E i \in 1..Len(cues) : innerOverlay.innerHTML = htmlText(cues[i].text))

\* C8: right after disable() or destroy() the cue list is empty, activeCue
\* is none, the outer surface is hidden (or released) and no text is rendered.
C8_DisableClearsEverything ==
    lastOp.op \in {"disable", "destroy"}
        => (/\ cues = <<>>
            /\ activeCue = NoCue
            /\ (overlay.exists => overlay.display = "none")
            /\ innerOverlay.innerHTML = <<>>)

\* A response is stale when a request issued after its own is still
\* outstanding or has already installed the current cues.
Stale(token) ==
    \/ \E req \in pending : req.token > token
    \/ \E i \in 1..Len(cues) : cues[i].id[1] > token

\* C9: the response to a load that is not the most recently issued one is
\* discarded whenever it arrives, before or after the response of the later
\* load: applying it leaves the cue list as it was.
C9_StaleResponseDiscarded ==
    [][(lastOp'.op = "deliver" /\ Stale(lastOp'.token)) => cues' = cues]_vars

\* C10 as claimed: when the fetch of a loadTrack call fails, isEnabled, cues,
\* activeCue and the surface visibility are what they were before that
\* loadTrack call, and the failure is reported.
C10_FailureRestoresPriorState ==
    [][(lastOp.op = "loadTrack" /\ lastOp'.op = "error" /\ lastOp'.token = lastOp.token)
          => (/\ isEnabled' = lastOp.prior.isEnabled
              /\ cues' = lastOp.prior.cues
              /\ activeCue' = lastOp.prior.activeCue
              /\ overlay'.display = lastOp.prior.display
              /\ "fetch-failed" \in lastOp'.reports)]_vars

\* C10 amended: the error callback changes nothing of the object (isEnabled,
\* cues, activeCue, settings, both surfaces are as they were just before the
\* callback ran), installs no cues and reports the failure.
C10_ErrorCallbackChangesNothing ==
    [][lastOp'.op = "error"
          => (/\ UNCHANGED <<isEnabled, cues, activeCue, settings, overlay, innerOverlay>>
              /\ "fetch-failed" \in lastOp'.reports)]_vars

\* C10 witness: the fetch of the only load failed; the overlay is left
\* enabled and shown with no cues, as loadTrack put it.
C10_Witness ==
    /\ lastOp.op = "error"
    /\ lastOp.token = 1
    /\ issued = 1
    /\ isEnabled
    /\ cues = <<>>
    /\ overlay.display = "flex"

\* C11: a loadTrack call hands no request to the network when no
\* authentication data is available and exactly one otherwise; the error
\* callback issues no request.
C11_OneRequestIffAuth ==
    [][/\ lastOp'.op = "loadTrack"
           => (/\ pending \subseteq pending'
               /\ Cardinality(pending' \ pending) = IF lastOp'.auth THEN 1 ELSE 0)
       /\ lastOp'.op = "error" => pending' \subseteq pending]_vars

\* C12: update(timeMs) never raises, in any state the other operations can
\* lead to, a response delivered after destroy() included.
C12_UpdateNeverThrows == lastOp.op = "update" => ~lastOp.threw

\* C13: once destroy() has released the surfaces the instance stays off:
\* isEnabled is false, the cue list is empty, no cue is active and no text is
\* rendered, whatever is called or delivered afterwards.
C13_DestroyIsTerminal ==
    ~overlay.exists
        => (/\ ~innerOverlay.exists
            /\ ~isEnabled
            /\ cues = <<>>
            /\ activeCue = NoCue
            /\ innerOverlay.innerHTML = <<>>)

\* C14: applyStyles(config) with a partial config merges field by field:
\* each style field the config leaves out keeps the value the previous
\* resolution gave it.
C14_PartialConfigMerges ==
    [][(/\ lastOp'.op = "applyStyles"
        /\ lastOp'.arg.given
        /\ innerOverlay.exists
        /\ innerOverlay.fontSize # Absent)
          => LET config == lastOp'.arg.value
             IN /\ config.subtitleSize = Absent
                    => innerOverlay'.fontSize = innerOverlay.fontSize
                /\ config.subtitleColor = Absent
                    => innerOverlay'.color = innerOverlay.color
                /\ config.subtitlePosition = Absent
                    => (/\ overlay'.justifyContent = overlay.justifyContent
                        /\ innerOverlay'.marginTop = innerOverlay.marginTop
                        /\ innerOverlay'.marginBottom = innerOverlay.marginBottom)
                /\ config.subtitleBackground = Absent
                    => (/\ innerOverlay'.textShadow = innerOverlay.textShadow
                        /\ innerOverlay'.background = innerOverlay.background)]_vars

KnownPositions == {"top", "bottom", "bottom-low", "bottom-high", "middle"}

KnownBackgrounds == {"drop-shadow", "background", "none"}

\* C15: after applyStyles on a live overlay every field whose value is
\* missing or not a known name shows its default: medium's font size, white,
\* bottom anchoring, the outer drop shadow; and applyStyles did not raise.
C15_UnknownValuesGetDefaults ==
    (lastOp.op = "applyStyles" /\ innerOverlay.exists)
        => (/\ ~lastOp.threw
            /\ settings.subtitleSize \notin DOMAIN sizes
                => innerOverlay.fontSize = sizes["medium"]
            /\ settings.subtitleColor = Absent => innerOverlay.color = "#ffffff"
            /\ settings.subtitlePosition \notin KnownPositions
                => (/\ overlay.justifyContent = "flex-end"
                    /\ innerOverlay.marginTop = "0"
                    /\ innerOverlay.marginBottom = "10%")
            /\ settings.subtitleBackground \notin KnownBackgrounds
                => (/\ innerOverlay.textShadow = DropShadow
                    /\ innerOverlay.background = "none"))

\* C16: applyStyles with a subtitleSize that is not a known name gives the
\* medium font size, and a second applyStyles with the same argument changes
\* nothing of the resolved style, the rendered text, activeCue, cues and
\* isEnabled.
C16_UnknownSizeMediumAndIdempotent ==
    [][(lastOp'.op = "applyStyles" /\ innerOverlay.exists)
          => (/\ settings'.subtitleSize \notin DOMAIN sizes
                  => innerOverlay'.fontSize = sizes["medium"]
              /\ (lastOp.op = "applyStyles" /\ lastOp'.arg = lastOp.arg)
                  => UNCHANGED <<settings, overlay, innerOverlay, activeCue, cues,
                                 isEnabled>>)]_vars

\* C17: when applyStyles returns on a live overlay (called by the host, by
\* loadTrack or by parseSubtitles), the rendered text is the active cue's
\* text with its line breaks as <br> if a cue is active, and is what it was
\* before if none is.
C17_ApplyStylesRerendersActiveCue ==
    [][(lastOp'.op \in {"applyStyles", "loadTrack", "deliver"} /\ innerOverlay.exists)
          => (/\ activeCue' = activeCue
              /\ innerOverlay'.innerHTML =
                     IF activeCue # NoCue THEN htmlText(activeCue.text)
                     ELSE innerOverlay.innerHTML
              /\ lastOp'.writes = IF activeCue # NoCue THEN 1 ELSE 0)]_vars

\* C17 witness: applyStyles, called on a disabled overlay whose text
\* disable() had removed, has drawn the two-line active cue again.
C17_Witness ==
    /\ lastOp.op = "applyStyles"
    /\ lastOp.writes = 1
    /\ ~isEnabled
    /\ activeCue # NoCue
    /\ \E i \in 1..Len(activeCue.text) : activeCue.text[i] = NL
    /\ innerOverlay.innerHTML = htmlText(activeCue.text)
    /\ Len(innerOverlay.innerHTML) = Len(activeCue.text) + 3

\* What each extractor makes of each payload the server may send.
SrtCuesOf == [d \in 1..Len(Payloads) |-> parseSRT(normalizeLineEndings(Payloads[d]))]

VttCuesOf == [d \in 1..Len(Payloads) |-> parseVTT(normalizeLineEndings(Payloads[d]))]

\* C18 as claimed: the format loadTrack requests is 'srt' exactly when the
\* declared codec is literally 'srt', and 'vtt' for every other codec.
C18_SrtOnlyForLiteralSrt ==
    (lastOp.op = "loadTrack" /\ lastOp.token # 0)
        => lastOp.format = IF lastOp.codec = <<"s", "r", "t">> THEN "srt" ELSE "vtt"

\* C18 amended: the format is 'srt' exactly when the codec, lower-cased, is
\* 'srt' or 'subrip', and 'vtt' otherwise (a missing codec included); that
\* format is the one in the URL, the one the request carries, and the one
\* that selects the extractor when the response arrives.
C18_SrtForSrtOrSubrip ==
    [][/\ (lastOp'.op = "loadTrack" /\ lastOp'.token # 0)
           => (/\ lastOp'.format =
                      IF toLowerCase(lastOp'.codec)
                             \in {<<"s", "r", "t">>, <<"s", "u", "b", "r", "i", "p">>}
                      THEN "srt"
                      ELSE "vtt"
               /\ lastOp'.url[9] = lastOp'.format
               /\ [token |-> lastOp'.token, format |-> lastOp'.format] \in pending')
       /\ lastOp'.op = "deliver"
           => \E req \in pending :
                 /\ req.token = lastOp'.token
                 /\ req.format = lastOp'.format
                 /\ cues' = cueObjects(IF req.format = "srt"
                                        THEN SrtCuesOf[lastOp'.data]
                                        ELSE VttCuesOf[lastOp'.data],
                                        req.token)]_vars

\* C18 witness: a track declared as 'SubRip' was requested as srt.
C18_Witness ==
    /\ lastOp.op = "loadTrack"
    /\ lastOp.codec = CodecSubRip
    /\ lastOp.format = "srt"
    /\ lastOp.url[9] = "srt"
    /\ \E req \in pending : req.token = lastOp.token /\ req.format = "srt"

\* C19: the URL loadTrack requests is serverAddress, /Videos/, itemId, /,
\* mediaSourceId, /Subtitles/, trackIndex, /Stream., format, ?api_key=,
\* accessToken and nothing more: the api_key parameter occurs once.
C19_ApiKeyOnce ==
    (lastOp.op = "loadTrack" /\ lastOp.token # 0)
        => (/\ Len(lastOp.url) = 11
            /\ SubSeq(lastOp.url, 2, 6) =
                   <<"/Videos/", ItemId, "/", MediaSourceId, "/Subtitles/">>
            /\ lastOp.url[8] = "/Stream."
            /\ lastOp.url[9] = lastOp.format
            /\ lastOp.url[10] = "?api_key="
            /\ Cardinality({i \in 1..Len(lastOp.url) : lastOp.url[i] = "?api_key="}) = 1)

\* C20: for a valid timestamp HH:MM:SS<sep>mmm parseTime returns the integer
\* ((HH*60+MM)*60+SS)*1000 + mmm, and the comma form and the period form of
\* the same digits return the same value.
C20_ParseTimeExactMillis ==
    lastOp.op = "parseTime"
        => (/\ lastOp.result = Num(lastOp.ms)
            /\ ParsedStamp[lastOp.ms][","] = ParsedStamp[lastOp.ms]["."])

\* C21: parseTime returns offset 0 and does not raise for every malformed
\* input: an empty timestamp, a non-numeric hour, minute or second field,
\* fewer than three colon-separated fields.
C21_MalformedGivesZero ==
    lastOp.op = "parseTime(malformed)" => (lastOp.result = Num(0) /\ ~lastOp.threw)

\* The cue the claim expects of a well-formed block.
expectedCue(b) ==
    [start |-> ParsedStamp[b.start][","], end |-> ParsedStamp[b.end][","], text |-> b.text]

expectedCues(blocks) ==
    LET good == SelectSeq(blocks, LAMBDA b : b.wellFormed)
    IN [i \in 1..Len(good) |-> expectedCue(good[i])]

\* C22: parseSRT emits exactly one cue per well-formed block, in file order,
\* with start and end the parsed timestamps of the block and text its text
\* lines trimmed at both ends (inner line breaks kept); blocks that are not
\* well-formed contribute no cue and do not keep later blocks from being
\* emitted.
C22_OneCuePerWellFormedBlock ==
    lastOp.op = "parseSRT" => lastOp.result = expectedCues(lastOp.blocks)

\* Whether the sequence part occurs in the sequence whole.
occursIn(part, whole) == \E i \in 1..(Len(whole) - Len(part) + 1) : HasAt(whole, i, part)

\* C23: parseVTT ignores the settings suffix after the end timestamp: a file
\* whose cues carry suffixes yields the same cues (start, end, text) as the
\* same file without them, one per cue with the cue's own text, and no suffix
\* appears in a cue text.
C23_SettingsSuffixIgnored ==
    lastOp.op = "parseVTT" =>
        /\ lastOp.result = ParsedVtt[withoutSuffix(lastOp.entries)][lastOp.ending]
        /\ Len(lastOp.result) = Len(lastOp.entries)
        /\ \A i \in 1..Len(lastOp.entries) :
               /\ lastOp.result[i].start = ParsedStamp[lastOp.entries[i].cue.start]["."]
               /\ lastOp.result[i].end = ParsedStamp[lastOp.entries[i].cue.end]["."]
               /\ lastOp.result[i].text = lastOp.entries[i].cue.lines
               /\ \A x \in Suffixes \ {NoSuffix} : ~occursIn(x, lastOp.result[i].text)

\* A two-cue file whose cues both carry a suffix has been parsed.
C23_Witness ==
    /\ lastOp.op = "parseVTT"
    /\ Len(lastOp.entries) = 2
    /\ \A i \in 1..2 : lastOp.entries[i].suffix # NoSuffix
    /\ Len(lastOp.result) = 2

\* C27: whenever the manager is disabled its cue list is empty, in every
\* reachable state; a response delivered after disable() installs no cues.
C27_DisabledHasNoCues == ~isEnabled => cues = <<>>

\* C28: while the manager is disabled, update and applyStyles leave the outer
\* surface hidden and the inner surface without text; stated for the first
\* such call after disable() on an overlay that has not been destroyed.
C28_DisabledStaysHidden ==
    [][(lastOp.op = "disable" /\ overlay.exists /\ lastOp'.op \in {"update", "applyStyles"})
          => (overlay'.display = "none" /\ innerOverlay'.innerHTML = <<>>)]_vars

\* C29: update never changes the cue list, the settings or isEnabled;
\* applyStyles never changes the cue list, activeCue or isEnabled; the cue
\* list only changes through loadTrack, response delivery, disable and
\* destroy.
C29_FrameOfUpdateAndApplyStyles ==
    [][/\ lastOp'.op = "update" =>
              (cues' = cues /\ settings' = settings /\ isEnabled' = isEnabled)
       /\ lastOp'.op = "applyStyles" =>
              (cues' = cues /\ activeCue' = activeCue /\ isEnabled' = isEnabled)
       /\ cues' # cues => lastOp'.op \in {"loadTrack", "deliver", "disable", "destroy"}]_vars

\* applyStyles has been called with a configuration while a cue is on screen.
C29_Witness ==
    /\ lastOp.op = "applyStyles"
    /\ lastOp.arg.given
    /\ isEnabled
    /\ cues # <<>>
    /\ activeCue # NoCue

\* C30: after every applyStyles call on a live overlay the background
\* treatments are mutually exclusive: shadow only, panel only, or neither;
\* the text shadow and the translucent panel are never both active.
C30_ShadowAndPanelExclusive ==
    (lastOp.op = "applyStyles" /\ innerOverlay.exists) =>
        /\ ~(innerOverlay.textShadow # "none" /\ innerOverlay.background # "none")
        /\ \/ innerOverlay.textShadow = DropShadow /\ innerOverlay.background = "none"
           \/ innerOverlay.textShadow = "none" /\ innerOverlay.background = Panel
           \/ innerOverlay.textShadow = "none" /\ innerOverlay.background = "none"

\* applyStyles has switched a surface that had the shadow to the panel.
C30_Witness ==
    /\ lastOp.op = "applyStyles"
    /\ innerOverlay.exists
    /\ innerOverlay.background = Panel
    /\ innerOverlay.textShadow = "none"
    /\ lastOp.arg.given
    /\ lastOp.arg.value.subtitleBackground = "background"

\* Whether userId is stored as a user of the server serverId.
storedPair(st, serverId, userId) ==
    /\ serverId \in serverIds(st.servers)
    /\ userId \in userIds(serverAt(st.servers, serverId).users)

\* The call the caller made last has returned (or thrown).
completed(op) == calls[Caller].pc = "done" /\ calls[Caller].op = op

\* C24: removeServer(serverId, userId) called with a userId removes at most
\* that user's entry and deletes the server only when no users remain on it:
\* when the call has completed, every other user that was stored at the
\* call, on that server and on every other server, is still stored with the
\* same data, also when userId is not a user of that server.
C24_RemoveServerTouchesOneUser ==
    (completed("removeServer") /\ calls[Caller].userId # Absent) =>
        LET before == calls[Caller].before.storage
        IN \A i \in 1..Len(before.servers) :
               LET server == before.servers[i]
               IN \A j \in 1..Len(server.users) :
                      LET user == server.users[j]
                      IN (server.id # calls[Caller].serverId
                              \/ user.userId # calls[Caller].userId) =>
                             /\ storedPair(storage, server.id, user.userId)
                             /\ userAt(serverAt(storage.servers, server.id).users,
                                       user.userId) = user

\* C25: getServerAuth(serverId, userId) returns null unless the requested
\* pair (the active pair when an id is omitted) is stored; an object it
\* returns carries the userId and accessToken of that stored user.
C25_AuthOnlyForStoredPair ==
    (completed("getServerAuth") /\ ~calls[Caller].result.threw) =>
        LET omitted == calls[Caller].serverId = Absent \/ calls[Caller].userId = Absent
            serverId == IF omitted THEN storage.activeServer ELSE calls[Caller].serverId
            userId == IF omitted THEN storage.activeUser ELSE calls[Caller].userId
            auth == calls[Caller].result.auth
        IN IF storedPair(storage, serverId, userId)
           THEN auth.isNull \/
                    /\ auth.userId = userId
                    /\ auth.accessToken =
                           userAt(serverAt(storage.servers, serverId).users,
                                  userId).accessToken
           ELSE auth.isNull

\* C26: setActiveServer(serverId, userId) returns false and writes nothing
\* when the server or the user on it is not stored; otherwise it returns
\* true and getActiveServer then returns that pair.
C26_SetActiveServerChecksPair ==
    completed("setActiveServer") =>
        IF storedPair(calls[Caller].before.storage, calls[Caller].serverId,
                      calls[Caller].userId)
        THEN /\ calls[Caller].result.bool
             /\ ~getActiveServer(storage).isNull
             /\ getActiveServer(storage).serverId = calls[Caller].serverId
             /\ getActiveServer(storage).userId = calls[Caller].userId
        ELSE /\ ~calls[Caller].result.bool
             /\ storage = calls[Caller].before.storage

\* C31: after any completed sequence of addServer, removeServer,
\* setActiveServer and updateServer calls run one at a time, the stored
\* active pair is absent or names a stored user, and getActiveServer returns
\* non-null whenever getTotalUserCount > 0.
C31_ActivePairIsStoredUser ==
    quiet =>
        /\ \/ storage.activeServer = Absent /\ storage.activeUser = Absent
           \/ storedPair(storage, storage.activeServer, storage.activeUser)
        /\ getTotalUserCount(storage) > 0 => ~getActiveServer(storage).isNull

\* C33: after any completed sequence of addServer, removeServer,
\* setActiveServer and updateServer calls run one at a time, every stored
\* server has at least one user, so getServerCount > 0 exactly when
\* hasServers() is true.
C33_NoServerWithoutUsers ==
    quiet =>
        /\ \A i \in 1..Len(storage.servers) : Len(storage.servers[i].users) > 0
        /\ getServerCount(storage) > 0 <=> hasServers(storage)

urlsOf(servers) == {servers[i].url : i \in 1..Len(servers)}

\* Whether userId is stored under a server with the URL serverUrl.
storedUnderUrl(servers, serverUrl, userId) ==
    \E i \in 1..Len(servers) :
        /\ servers[i].url = serverUrl
        /\ userId \in userIds(servers[i].users)

\* C34: addServer with the URL of a stored server creates no new server
\* entry and leaves the user stored under the existing server, so under
\* addServer, removeServer and setActiveServer calls no two stored servers
\* have the same URL.
C34_OneServerPerUrl ==
    /\ \A i, j \in 1..Len(storage.servers) :
           storage.servers[i].url = storage.servers[j].url => i = j
    /\ completed("addServer") =>
           LET before == calls[Caller].before.storage.servers
           IN IF calls[Caller].serverUrl \in urlsOf(before)
              THEN /\ serverIds(storage.servers) = serverIds(before)
                   /\ urlsOf(storage.servers) = urlsOf(before)
                   /\ storedUnderUrl(storage.servers, calls[Caller].serverUrl,
                                     calls[Caller].userId)
              ELSE /\ Len(storage.servers) = Len(before) + 1
                   /\ urlsOf(storage.servers) = urlsOf(before) \cup {calls[Caller].serverUrl}

\* C32: when an addServer call runs interleaved with another call of the
\* store (an addServer for a different user, a removeServer of a different
\* user, or an updateServer) no update is lost: after both have completed the
\* user the addServer call added is stored under a server with its URL.
C32_NoLostUpdate ==
    \A c \in Racers, d \in Racers :
        /\ c # d
        /\ calls[c].pc = "done" /\ calls[d].pc = "done"
        /\ calls[c].op = "addServer"
        /\ \/ calls[d].op = "updateServer"
           \/ calls[d].op \in {"addServer", "removeServer"} /\ calls[d].userId # calls[c].userId
        => storedUnderUrl(storage.servers, calls[c].serverUrl, calls[c].userId)

\* C35: login / loginWithToken called with isAddingNewServer = true while
\* another user is active leaves the session as it was, whether the call
\* succeeds or its authentication request fails: when it has completed, the
\* stored active pair, the API client's server address and credentials, and
\* the context's user, serverUrl, accessToken and isAuthenticated are what
\* they were at the call.
C35_AddingServerKeepsSession ==
    /\ completed("login") \/ completed("loginWithToken")
    /\ calls[Caller].adding
    /\ ~getActiveServer(calls[Caller].before.storage).isNull
    => LET before == calls[Caller].before
       IN /\ storage.activeServer = before.storage.activeServer
          /\ storage.activeUser = before.storage.activeUser
          /\ session.apiServer = before.session.apiServer
          /\ session.apiUserId = before.session.apiUserId
          /\ session.apiToken = before.session.apiToken
          /\ session.user = before.session.user
          /\ session.serverUrl = before.session.serverUrl
          /\ session.accessToken = before.session.accessToken
          /\ session.isAuthenticated = before.session.isAuthenticated

\* C36: when logout completes, the user that was active is no longer stored;
\* if users remain, isAuthenticated is true and the context's accessToken and
\* serverUrl are those of the stored user the active keys name; if none
\* remain, isAuthenticated is false and user, serverUrl, serverName and
\* accessToken are null.
C36_LogoutDropsActiveUser ==
    completed("logout") =>
        LET active == getActiveServer(calls[Caller].before.storage)
        IN /\ ~active.isNull => ~storedPair(storage, active.serverId, active.userId)
           /\ IF getTotalUserCount(storage) > 0
              THEN /\ session.isAuthenticated
                   /\ ~getActiveServer(storage).isNull
                   /\ session.accessToken = getActiveServer(storage).accessToken
                   /\ session.serverUrl = getActiveServer(storage).url
              ELSE /\ ~session.isAuthenticated
                   /\ session.user = Absent
                   /\ session.serverUrl = Absent
                   /\ session.serverName = Absent
                   /\ session.accessToken = Absent

\* C37: when logoutAll completes, the store holds no servers and no users,
\* the active server and active user keys are absent (getActiveServer
\* returns null), and the context is unauthenticated with user, serverUrl and
\* accessToken null.
C37_LogoutAllEmptiesStore ==
    completed("logoutAll") =>
        /\ storage.servers = <<>>
        /\ getTotalUserCount(storage) = 0
        /\ storage.activeServer = Absent
        /\ storage.activeUser = Absent
        /\ getActiveServer(storage).isNull
        /\ ~session.isAuthenticated
        /\ session.user = Absent
        /\ session.serverUrl = Absent
        /\ session.accessToken = Absent

====
